---- MODULE Spec2Model ----
(***************************************************************************)
(* Model of the list_resources tool of kubernetes-mcp                      *)
(* (src/src/tools/list.go): kind resolution against the discovery catalog, *)
(* group-substring matching, list-option defaulting, the projection of the *)
(* listed items and the handler that ties them to the discovery and        *)
(* dynamic clients; and of the change_env tool (ChangeEnvTool) against     *)
(* Secret Manager.                                                         *)
(*                                                                         *)
(* Go strings are sequences of one-character strings, so that              *)
(* strings.ToLower, strings.Contains and strings.Split are computed and    *)
(* not assumed.  A nil pointer is a record whose field  nil  is TRUE.       *)
(* `for _, r := range` has one r per iteration (Go >= 1.22, which the      *)
(* module's dependencies require), so &r names the element visited.        *)
(***************************************************************************)
EXTENDS Integers, Sequences, FiniteSets, TLC

VARIABLES
    pc,                \* position of the invocation in Handler
    args,              \* req.Params.Arguments of the invocation
    input,             \* *ListResourcesInput built by parseAndValidateListParams
    mode,              \* branch of Handler taken at list.go:129-140
    apiResourceLists,  \* answer of ServerPreferredResources held by the handler
    gvrMatch,          \* the *gvrMatch the handler lists with
    fetches,           \* number of ServerPreferredResources calls of the invocation
    listCalls,         \* calls made on the resource interface by the invocation
    result,            \* what Handler returns
    ctxDone,           \* the invocation's ctx has been cancelled
    answer,            \* what the client returned to the handler's latest call
    secretVersions,    \* versions of the secret held by Secret Manager, oldest first
    fnIn,              \* inputs of the function under test (function specifications)
    fnOut              \* its result

handlerVars == <<pc, args, input, mode, apiResourceLists, gvrMatch, fetches, listCalls, result,
                 ctxDone, answer>>
vars == <<pc, args, input, mode, apiResourceLists, gvrMatch, fetches, listCalls, result,
          ctxDone, answer, secretVersions, fnIn, fnOut>>

(***************************************************************************)
(* Bounds                                                                  *)
(***************************************************************************)
MaxLists == 2      \* APIResourceLists in one catalog

(***************************************************************************)
(* Strings                                                                 *)
(***************************************************************************)
ToLowerRune(c) ==
    CASE c = "A" -> "a" [] c = "B" -> "b" [] c = "C" -> "c" [] c = "D" -> "d"
      [] c = "E" -> "e" [] c = "F" -> "f" [] c = "G" -> "g" [] c = "H" -> "h"
      [] c = "I" -> "i" [] c = "J" -> "j" [] c = "K" -> "k" [] c = "L" -> "l"
      [] c = "M" -> "m" [] c = "N" -> "n" [] c = "O" -> "o" [] c = "P" -> "p"
      [] c = "Q" -> "q" [] c = "R" -> "r" [] c = "S" -> "s" [] c = "T" -> "t"
      [] c = "U" -> "u" [] c = "V" -> "v" [] c = "W" -> "w" [] c = "X" -> "x"
      [] c = "Y" -> "y" [] c = "Z" -> "z"
      [] OTHER -> c

\* strings.ToLower
ToLower(s) == [i \in 1..Len(s) |-> ToLowerRune(s[i])]

\* strings.Contains
Contains(s, substr) ==
    \E i \in 0..(Len(s) - Len(substr)) : SubSeq(s, i + 1, i + Len(substr)) = substr

\* strings.Split(s, sep) for a one-character sep: the pieces between the separators
RECURSIVE SplitFrom(_, _, _, _)
SplitFrom(s, sep, i, cur) ==
    IF i > Len(s) THEN <<cur>>
    ELSE IF s[i] = sep THEN <<cur>> \o SplitFrom(s, sep, i + 1, <<>>)
    ELSE SplitFrom(s, sep, i + 1, Append(cur, s[i]))

Split(s, sep) == SplitFrom(s, sep, 1, <<>>)

(***************************************************************************)
(* The discovery catalog: []*metav1.APIResourceList                        *)
(***************************************************************************)
Pods == [Name |-> <<"p","o","d","s">>, Kind |-> <<"P","o","d">>,
         ShortNames |-> << <<"p">>, <<"p","o">> >>, Namespaced |-> TRUE]
\* a resource type of another group that shares its names with Pods
PoCRD == [Name |-> <<"p","o">>, Kind |-> <<"P","O","D","S">>,
          ShortNames |-> << >>, Namespaced |-> FALSE]
\* a descriptor with an empty plural name
NoName == [Name |-> << >>, Kind |-> <<"P","o","d">>,
           ShortNames |-> << <<"p","o">> >>, Namespaced |-> TRUE]
ZeroAPIResource == [Name |-> << >>, Kind |-> << >>, ShortNames |-> << >>, Namespaced |-> FALSE]

gvEmpty == << >>
gvCore == <<"v","1">>
gvApps == <<"a","/","v","1">>
gvAppsUpper == <<"A","/","v","1">>
gvNoVersion == <<"a","/">>

NilList == [nil |-> TRUE, GroupVersion |-> << >>, APIResources |-> << >>]
APIResourceList(gv, rs) == [nil |-> FALSE, GroupVersion |-> gv, APIResources |-> rs]

\* catalogs of at most MaxLists lists drawn from ls
CatalogsOver(ls) == UNION {[1..n -> ls] : n \in 0..MaxLists}

(***************************************************************************)
(* gvrMatch and its conversion (list.go:582-621)                           *)
(***************************************************************************)
NilMatch == [nil |-> TRUE, apiRes |-> ZeroAPIResource, groupVersion |-> << >>, namespaced |-> FALSE]
newGvrMatch(apiRes, groupVersion, namespaced) ==
    [nil |-> FALSE, apiRes |-> apiRes, groupVersion |-> groupVersion, namespaced |-> namespaced]

NilGVR == [nil |-> TRUE, Group |-> << >>, Version |-> << >>, Resource |-> << >>]

ToGroupVersionResource(f) ==
    IF f.groupVersion = << >> THEN NilGVR
    ELSE LET parts == Split(f.groupVersion, "/")
         IN  IF Len(parts) = 1
             THEN [nil |-> FALSE, Group |-> << >>, Version |-> parts[1], Resource |-> f.apiRes.Name]
             ELSE [nil |-> FALSE, Group |-> parts[1], Version |-> parts[2], Resource |-> f.apiRes.Name]

(***************************************************************************)
(* findGVRsByGroupSubstring (list.go:623-641)                              *)
(***************************************************************************)
\* the inner loop: one match per resource of the list, in order
MatchesOfList(apiResList) ==
    [i \in 1..Len(apiResList.APIResources) |->
        newGvrMatch(apiResList.APIResources[i], apiResList.GroupVersion,
                    apiResList.APIResources[i].Namespaced)]

RECURSIVE GroupScan(_, _, _)
GroupScan(lists, target, j) ==
    IF j > Len(lists) THEN << >>
    ELSE IF lists[j].nil THEN GroupScan(lists, target, j + 1)
    ELSE IF ~Contains(lists[j].GroupVersion, target) THEN GroupScan(lists, target, j + 1)
    ELSE MatchesOfList(lists[j]) \o GroupScan(lists, target, j + 1)

\* variant: the fragment is used as typed, strings.ToLower forgotten
findGVRsByGroupSubstringRawTarget(lists, groupSubstring) ==
    GroupScan(lists, groupSubstring, 1)

findGVRsByGroupSubstring(lists, groupSubstring) ==
    GroupScan(lists, ToLower(groupSubstring), 1)

(***************************************************************************)
(* findGVRByKind (list.go:643-686)                                         *)
(***************************************************************************)
\* list.go:663-668: does a short name equal the target
RECURSIVE ShortNameScan(_, _, _)
ShortNameScan(shortNames, target, k) ==
    IF k > Len(shortNames) THEN FALSE
    ELSE IF ToLower(shortNames[k]) = target THEN TRUE
    ELSE ShortNameScan(shortNames, target, k + 1)

\* list.go:654-672: the first resource of one list that matches, or nil
RECURSIVE ResourceScan(_, _, _, _)
ResourceScan(rs, gv, target, i) ==
    IF i > Len(rs) THEN NilMatch
    ELSE IF ToLower(rs[i].Name) = target \/ ToLower(rs[i].Kind) = target
         THEN newGvrMatch(rs[i], gv, rs[i].Namespaced)
    ELSE IF ShortNameScan(rs[i].ShortNames, target, 1)
         THEN newGvrMatch(rs[i], gv, rs[i].Namespaced)
    ELSE ResourceScan(rs, gv, target, i + 1)

\* list.go:648-677: the first list that holds a match
RECURSIVE KindScan(_, _, _)
KindScan(lists, target, j) ==
    IF j > Len(lists) THEN NilMatch
    ELSE IF lists[j].nil THEN KindScan(lists, target, j + 1)
    ELSE LET found == ResourceScan(lists[j].APIResources, lists[j].GroupVersion, target, 1)
         IN  IF ~found.nil THEN found ELSE KindScan(lists, target, j + 1)

NoError == [msg |-> "", cause |-> "none"]
Errorf(msg, cause) == [msg |-> msg, cause |-> cause]

Reverse(s) == [i \in 1..Len(s) |-> s[Len(s) + 1 - i]]
ReverseCatalog(lists) ==
    [j \in 1..Len(lists) |->
        [lists[Len(lists) + 1 - j] EXCEPT !.APIResources = Reverse(@)]]

\* variant: the loops lack their break statements, so the last match stays in found
findGVRByKindLastMatch(lists, kind) ==
    LET found == KindScan(ReverseCatalog(lists), ToLower(kind), 1)
    IN  IF found.nil THEN [found |-> NilMatch, err |-> Errorf("cannot find resource", "none")]
        ELSE IF ToGroupVersionResource(found).nil
             THEN [found |-> NilMatch, err |-> Errorf("cannot find resource", "none")]
        ELSE [found |-> found, err |-> NoError]

\* variant: the token is compared as typed, strings.ToLower(kind) forgotten
findGVRByKindRawTarget(lists, kind) ==
    LET found == KindScan(lists, kind, 1)
    IN  IF found.nil THEN [found |-> NilMatch, err |-> Errorf("cannot find resource", "none")]
        ELSE IF ToGroupVersionResource(found).nil
             THEN [found |-> NilMatch, err |-> Errorf("cannot find resource", "none")]
        ELSE [found |-> found, err |-> NoError]

\* returns (found, err)
findGVRByKind(lists, kind) ==
    LET found == KindScan(lists, ToLower(kind), 1)
    IN  IF found.nil THEN [found |-> NilMatch, err |-> Errorf("cannot find resource", "none")]
        ELSE IF ToGroupVersionResource(found).nil
             THEN [found |-> NilMatch, err |-> Errorf("cannot find resource", "none")]
        ELSE [found |-> found, err |-> NoError]

(***************************************************************************)
(* Request arguments (map[string]any) and their numbers                    *)
(*                                                                         *)
(* A JSON number arrives as a float64.  A float64 is counted in halves     *)
(* (halves = 5 is 2.5); huge marks a value beyond the int64 range, whose    *)
(* conversion to int64 the Go specification leaves to the implementation.  *)
(* An int64 is n, or one of the two ends of its range.                     *)
(***************************************************************************)
Float(h) == [huge |-> FALSE, halves |-> h]
HugeFloat == [huge |-> TRUE, halves |-> 1]
FloatGtZero(f) == f.halves > 0

I64(n) == [sat |-> 0, n |-> n]
MinInt64 == [sat |-> -1, n |-> 0]
MaxInt64 == [sat |-> 1, n |-> 0]
Int64GtZero(v) == v.sat = 1 \/ (v.sat = 0 /\ v.n > 0)
\* what int64(f) gives for an f beyond the range: amd64 gives the minimum, arm64 saturates
OutOfRangeResults == {MinInt64, MaxInt64}

\* int64(f): truncation toward zero
ToInt64(f, outOfRange) ==
    IF f.huge THEN outOfRange
    ELSE IF f.halves >= 0 THEN I64(f.halves \div 2)
    ELSE I64(-((-f.halves) \div 2))

\* args[key].(string), args[key].(float64), args[key].(bool): ok is FALSE when the
\* key is missing or holds a value of another type
Absent == [ok |-> FALSE, val |-> << >>]
Str(v) == [ok |-> TRUE, val |-> v]
AbsentNum == [ok |-> FALSE, val |-> Float(0)]
Num(f) == [ok |-> TRUE, val |-> f]
AbsentBool == [ok |-> FALSE, val |-> FALSE]
Bool(b) == [ok |-> TRUE, val |-> b]

sAll == <<"a","l","l">>
NamespaceAll == << >>

ZeroInput ==
    [Kind |-> << >>, GroupFilter |-> << >>, Namespace |-> << >>, LabelSelector |-> << >>,
     FieldSelector |-> << >>, Limit |-> I64(0), TimeoutSeconds |-> I64(0), ShowDetails |-> FALSE]

\* the verdicts of validation.ValidateKind, ValidateNamespace and ValidateLabelSelector
Verdicts == [kind : BOOLEAN, namespace : BOOLEAN, labelSelector : BOOLEAN]

(***************************************************************************)
(* parseAndValidateListParams (list.go:505-564); returns (input, err)      *)
(***************************************************************************)
parseAndValidateListParams(a, valid, outOfRange) ==
    LET groupFilter == IF a.groupFilter.ok THEN a.groupFilter.val ELSE << >>
        kindGiven == a.kind.ok /\ a.kind.val # << >>
        namespace == IF a.namespace.ok THEN a.namespace.val ELSE << >>
        limit == IF a.limit.ok /\ FloatGtZero(a.limit.val)
                 THEN ToInt64(a.limit.val, outOfRange) ELSE I64(0)
        timeoutSeconds == IF a.timeoutSeconds.ok /\ FloatGtZero(a.timeoutSeconds.val)
                          THEN ToInt64(a.timeoutSeconds.val, outOfRange) ELSE I64(0)
        Fail(msg) == [input |-> ZeroInput, err |-> Errorf(msg, "validation")]
    IN  IF kindGiven /\ ~valid.kind THEN Fail("invalid kind")
        ELSE IF ~kindGiven /\ groupFilter = << >>
             THEN [input |-> ZeroInput,
                   err |-> Errorf("kind must be provided when groupFilter is not specified", "none")]
        ELSE IF a.namespace.ok /\ ~valid.namespace THEN Fail("invalid namespace")
        ELSE IF a.labelSelector.ok /\ ~valid.labelSelector THEN Fail("invalid labelSelector")
        ELSE [input |->
                 [Kind |-> IF kindGiven THEN a.kind.val ELSE << >>,
                  GroupFilter |-> groupFilter,
                  Namespace |-> IF namespace = << >> THEN NamespaceAll ELSE namespace,
                  LabelSelector |-> IF a.labelSelector.ok THEN a.labelSelector.val ELSE << >>,
                  FieldSelector |-> IF a.fieldSelector.ok THEN a.fieldSelector.val ELSE << >>,
                  Limit |-> limit,
                  TimeoutSeconds |-> timeoutSeconds,
                  ShowDetails |-> IF a.showDetails.ok THEN a.showDetails.val ELSE FALSE],
              err |-> NoError]

(***************************************************************************)
(* buildListOptions (list.go:314-334)                                      *)
(***************************************************************************)
defaultTimeout == 30

\* variant: the input's timeout is passed on as it is, the default forgotten
buildListOptionsNoDefault(in) ==
    [LabelSelector |-> in.LabelSelector,
     FieldSelector |-> in.FieldSelector,
     Limit |-> IF Int64GtZero(in.Limit) THEN in.Limit ELSE I64(0),
     TimeoutSeconds |-> in.TimeoutSeconds]

\* Limit 0 is the zero value of metav1.ListOptions: no limit is sent
buildListOptions(in) ==
    [LabelSelector |-> in.LabelSelector,
     FieldSelector |-> in.FieldSelector,
     Limit |-> IF Int64GtZero(in.Limit) THEN in.Limit ELSE I64(0),
     TimeoutSeconds |-> IF Int64GtZero(in.TimeoutSeconds) THEN in.TimeoutSeconds
                        ELSE I64(defaultTimeout)]

sNs == <<"n","s">>

IdleArgs ==
    [kind |-> Absent, groupFilter |-> Absent, namespace |-> Absent, labelSelector |-> Absent,
     fieldSelector |-> Absent, limit |-> AbsentNum, timeoutSeconds |-> AbsentNum,
     showDetails |-> AbsentBool]
NoResult == [status |-> "none", err |-> NoError, shape |-> "none", body |-> << >>]
\* the answer of one call on the client: err is "none" or the cause of the error
Answer(call, err, items) == [call |-> call, err |-> err, items |-> items]
NoAnswer == Answer("none", "none", << >>)
\* the secret store before the secret exists
NoSecret == << >>
HandlerIdle ==
    /\ pc = "idle"
    /\ args = IdleArgs
    /\ input = ZeroInput
    /\ mode = "none"
    /\ apiResourceLists = << >>
    /\ gvrMatch = NilMatch
    /\ fetches = 0
    /\ listCalls = << >>
    /\ result = NoResult
    /\ ctxDone = FALSE
    /\ answer = NoAnswer

NoQuery == [op |-> "none", err |-> NoError, input |-> ZeroInput, options |-> buildListOptions(ZeroInput)]

(***************************************************************************)
(* Raw items (unstructured.Unstructured) and their projection              *)
(*                                                                         *)
(* A JSON value is a record with one field that names its Go type:         *)
(* s string, n float64 (a whole number), b bool, m map[string]interface{}, *)
(* a []interface{}.                                                        *)
(***************************************************************************)
IsMap(v) == "m" \in DOMAIN v
HasKey(v, k) == IsMap(v) /\ k \in DOMAIN v.m
\* m[k].(string), m[k].(bool), m[k].(float64), m[k].([]interface{}) on a Go map m
IsString(m, k) == k \in DOMAIN m /\ "s" \in DOMAIN m[k]
IsBool(m, k) == k \in DOMAIN m /\ "b" \in DOMAIN m[k]
IsNumber(m, k) == k \in DOMAIN m /\ "n" \in DOMAIN m[k]
IsArray(m, k) == k \in DOMAIN m /\ "a" \in DOMAIN m[k]

\* unstructured.NestedString(obj, "metadata", field), "" when missing
MetadataString(item, field) ==
    IF HasKey(item, "metadata") /\ IsMap(item.m.metadata) /\ IsString(item.m.metadata.m, field)
    THEN item.m.metadata.m[field].s ELSE << >>
GetName(item) == MetadataString(item, "name")
GetNamespace(item) == MetadataString(item, "namespace")
GetKind(item) == IF IsString(item.m, "kind") THEN item.m.kind.s ELSE << >>

\* unstructured.NestedMap(obj, field): found only when the field holds a map
NestedMapFound(item, field) == HasKey(item, field) /\ IsMap(item.m[field])
\* the map NestedMap returns, an empty map standing for nil
EmptyMap == [k \in {} |-> [b |-> FALSE]]
NestedMap(item, field) == IF NestedMapFound(item, field) THEN item.m[field].m ELSE EmptyMap
\* m[k].(string) and m[k].(float64) with the zero value when the assertion fails
StringOr(m, k) == IF IsString(m, k) THEN m[k].s ELSE << >>
NumberOr(m, k) == IF IsNumber(m, k) THEN m[k].n ELSE 0

\* a []string: nil until something is assigned to it
NilSlice == [nil |-> TRUE, elems |-> << >>]
Slice(elems) == [nil |-> Len(elems) = 0, elems |-> elems]

\* fmt.Sprintf("%d", n)
DigitRunes == <<"0","1","2","3","4","5","6","7","8","9">>
RECURSIVE Digits(_)
Digits(n) == IF n < 10 THEN <<DigitRunes[n + 1]>> ELSE Append(Digits(n \div 10), DigitRunes[(n % 10) + 1])
Itoa(n) == IF n < 0 THEN <<"-">> \o Digits(-n) ELSE Digits(n)

sPodLower == <<"p","o","d">>
sDeploymentLower == <<"d","e","p","l","o","y","m","e","n","t">>
sServiceLower == <<"s","e","r","v","i","c","e">>
sIngressLower == <<"i","n","g","r","e","s","s">>

\* variant: restartCount = int(rc) in place of restartCount += int(rc)
RECURSIVE ContainerScanLastCount(_, _, _, _)
ContainerScanLastCount(csArr, i, allReady, restartCount) ==
    IF i > Len(csArr) THEN [allReady |-> allReady, restartCount |-> restartCount]
    ELSE IF ~IsMap(csArr[i]) THEN ContainerScanLastCount(csArr, i + 1, allReady, restartCount)
    ELSE ContainerScanLastCount(csArr, i + 1,
             IF IsBool(csArr[i].m, "ready") THEN allReady /\ csArr[i].m.ready.b ELSE allReady,
             IF IsNumber(csArr[i].m, "restartCount") THEN csArr[i].m.restartCount.n
             ELSE restartCount)

\* list.go:366-381: the loop over containerStatuses, from entry i on
RECURSIVE ContainerScan(_, _, _, _)
ContainerScan(csArr, i, allReady, restartCount) ==
    IF i > Len(csArr) THEN [allReady |-> allReady, restartCount |-> restartCount]
    ELSE IF ~IsMap(csArr[i]) THEN ContainerScan(csArr, i + 1, allReady, restartCount)
    ELSE ContainerScan(csArr, i + 1,
             IF IsBool(csArr[i].m, "ready") THEN allReady /\ csArr[i].m.ready.b ELSE allReady,
             restartCount + NumberOr(csArr[i].m, "restartCount"))

\* list.go:353-383; Ready and RestartCount keep their zero values unless
\* status.containerStatuses is an array
PodSummary(item) ==
    LET status == NestedMap(item, "status")
        cs == IF IsArray(status, "containerStatuses")
              THEN ContainerScan(status.containerStatuses.a, 1, TRUE, 0)
              ELSE [allReady |-> FALSE, restartCount |-> 0]
    IN  [Name |-> GetName(item),
         Namespace |-> GetNamespace(item),
         Phase |-> StringOr(status, "phase"),
         Ready |-> cs.allReady,
         RestartCount |-> cs.restartCount,
         StartTime |-> StringOr(status, "startTime")]

\* variant: Ready is read from availableReplicas
DeploymentSummaryReadyFromAvailable(item) ==
    LET status == NestedMap(item, "status")
    IN  [Name |-> GetName(item),
         Namespace |-> GetNamespace(item),
         Replicas |-> NumberOr(status, "replicas"),
         Available |-> NumberOr(status, "availableReplicas"),
         Unavailable |-> NumberOr(status, "unavailableReplicas"),
         Updated |-> NumberOr(status, "updatedReplicas"),
         Ready |-> NumberOr(status, "availableReplicas")]

\* list.go:384-407
DeploymentSummary(item) ==
    LET status == NestedMap(item, "status")
    IN  [Name |-> GetName(item),
         Namespace |-> GetNamespace(item),
         Replicas |-> NumberOr(status, "replicas"),
         Available |-> NumberOr(status, "availableReplicas"),
         Unavailable |-> NumberOr(status, "unavailableReplicas"),
         Updated |-> NumberOr(status, "updatedReplicas"),
         Ready |-> NumberOr(status, "readyReplicas")]

\* variant: the "/" is appended whether or not there is a protocol
PortStringSlashAlways(portMap) ==
    (IF IsString(portMap, "name") THEN portMap.name.s \o <<":">> ELSE << >>)
    \o (IF IsNumber(portMap, "port") THEN Itoa(portMap.port.n) ELSE << >>)
    \o <<"/">> \o StringOr(portMap, "protocol")

\* list.go:425-434: the string of one port
PortString(portMap) ==
    (IF IsString(portMap, "name") THEN portMap.name.s \o <<":">> ELSE << >>)
    \o (IF IsNumber(portMap, "port") THEN Itoa(portMap.port.n) ELSE << >>)
    \o (IF IsString(portMap, "protocol") THEN <<"/">> \o portMap.protocol.s ELSE << >>)

\* list.go:423-437: the loop over spec.ports, from entry i on
RECURSIVE PortScan(_, _)
PortScan(ports, i) ==
    IF i > Len(ports) THEN << >>
    ELSE IF ~IsMap(ports[i]) THEN PortScan(ports, i + 1)
    ELSE <<PortString(ports[i].m)>> \o PortScan(ports, i + 1)

\* list.go:408-441
ServiceSummary(item) ==
    LET spec == NestedMap(item, "spec")
    IN  [Name |-> GetName(item),
         Namespace |-> GetNamespace(item),
         Type |-> StringOr(spec, "type"),
         ClusterIP |-> StringOr(spec, "clusterIP"),
         Ports |-> IF IsArray(spec, "ports") THEN Slice(PortScan(spec.ports.a, 1)) ELSE NilSlice]

\* variant: the hostname of an entry is appended before its ip
RECURSIVE AddressScanHostnameFirst(_, _)
AddressScanHostnameFirst(ingressArr, i) ==
    IF i > Len(ingressArr) THEN << >>
    ELSE IF ~IsMap(ingressArr[i]) THEN AddressScanHostnameFirst(ingressArr, i + 1)
    ELSE (IF IsString(ingressArr[i].m, "hostname") THEN <<ingressArr[i].m.hostname.s>> ELSE << >>)
         \o (IF IsString(ingressArr[i].m, "ip") THEN <<ingressArr[i].m.ip.s>> ELSE << >>)
         \o AddressScanHostnameFirst(ingressArr, i + 1)

\* list.go:452-461: the loop over status.loadBalancer.ingress, from entry i on
RECURSIVE AddressScan(_, _)
AddressScan(ingressArr, i) ==
    IF i > Len(ingressArr) THEN << >>
    ELSE IF ~IsMap(ingressArr[i]) THEN AddressScan(ingressArr, i + 1)
    ELSE (IF IsString(ingressArr[i].m, "ip") THEN <<ingressArr[i].m.ip.s>> ELSE << >>)
         \o (IF IsString(ingressArr[i].m, "hostname") THEN <<ingressArr[i].m.hostname.s>> ELSE << >>)
         \o AddressScan(ingressArr, i + 1)

\* list.go:470-476: the loop over spec.rules, from entry i on
RECURSIVE HostScan(_, _)
HostScan(rules, i) ==
    IF i > Len(rules) THEN << >>
    ELSE IF IsMap(rules[i]) /\ IsString(rules[i].m, "host")
         THEN <<rules[i].m.host.s>> \o HostScan(rules, i + 1)
    ELSE HostScan(rules, i + 1)

\* list.go:442-480
IngressSummary(item) ==
    LET status == NestedMap(item, "status")
        spec == NestedMap(item, "spec")
        hasLb == "loadBalancer" \in DOMAIN status /\ IsMap(status.loadBalancer)
    IN  [Name |-> GetName(item),
         Namespace |-> GetNamespace(item),
         Hosts |-> IF IsArray(spec, "rules") THEN Slice(HostScan(spec.rules.a, 1)) ELSE NilSlice,
         Addresses |-> IF hasLb /\ IsArray(status.loadBalancer.m, "ingress")
                       THEN Slice(AddressScan(status.loadBalancer.m.ingress.a, 1))
                       ELSE NilSlice]

\* list.go:489-503; hasStatus FALSE is the nil Status
extractResourceStatus(item) ==
    [Name |-> GetName(item),
     Namespace |-> GetNamespace(item),
     Kind |-> GetKind(item),
     hasStatus |-> NestedMapFound(item, "status"),
     Status |-> NestedMap(item, "status")]

\* variant: the kind is compared with strings.HasPrefix
HasPrefix(s, prefix) == Len(s) >= Len(prefix) /\ SubSeq(s, 1, Len(prefix)) = prefix
ProjectByPrefix(kind, item) ==
    CASE HasPrefix(kind, sPodLower) -> PodSummary(item)
      [] HasPrefix(kind, sDeploymentLower) -> DeploymentSummary(item)
      [] HasPrefix(kind, sServiceLower) -> ServiceSummary(item)
      [] HasPrefix(kind, sIngressLower) -> IngressSummary(item)
      [] OTHER -> extractResourceStatus(item)

\* list.go:352-484: one pass of the loop body for a lowercased kind
Project(kind, item) ==
    CASE kind = sPodLower -> PodSummary(item)
      [] kind = sDeploymentLower -> DeploymentSummary(item)
      [] kind = sServiceLower -> ServiceSummary(item)
      [] kind = sIngressLower -> IngressSummary(item)
      [] OTHER -> extractResourceStatus(item)

(***************************************************************************)
(* The handler (list.go:121-312, 336-351)                                  *)
(***************************************************************************)
\* variant: the error is swallowed and the summaries built so far, none, are returned
FailureSwallowed(err) == [status |-> "ok", err |-> NoError, shape |-> "summaries", body |-> NilSlice]

Failure(err) == [status |-> "error", err |-> err, shape |-> "none", body |-> << >>]
Success(shape, body) == [status |-> "ok", err |-> NoError, shape |-> shape, body |-> body]

\* variant: kind "all" is not recognised as the discovery keyword
DispatchAllIsAKind(in) ==
    IF in.GroupFilter # << >>
    THEN IF in.Kind = << >> THEN "discovery" ELSE "filtered"
    ELSE "direct"

\* list.go:129-140: the branch taken for a parsed input
Dispatch(in) ==
    IF in.GroupFilter # << >>
    THEN IF in.Kind = sAll \/ in.Kind = << >> THEN "discovery" ELSE "filtered"
    ELSE "direct"
\* variant: Handler calls handleGroupFilteredList on both branches of list.go:130
EntryOfAlwaysFiltered(m) ==
    CASE m = "discovery" -> "handleGroupFilteredList"
      [] m = "filtered" -> "handleGroupFilteredList"
      [] m = "direct" -> "discoverResourceByKind"

EntryOf(m) ==
    CASE m = "discovery" -> "handleGroupDiscovery"
      [] m = "filtered" -> "handleGroupFilteredList"
      [] m = "direct" -> "discoverResourceByKind"
\* variant: the summaries are built whatever ShowDetails says
ListerOfAlwaysStatus(in) == "listResourcesWithStatus"

\* list.go:145-167, 260-280: the function that lists
ListerOf(in) == IF in.ShowDetails THEN "listResourceDetails" ELSE "listResourcesWithStatus"

sPO == <<"P","O">>
HandlerArgs ==
    [kind : {Absent, Str(<< >>), Str(sAll), Str(<<"A","L","L">>), Str(sPO), Str(<<"x">>)},
     groupFilter : {Absent, Str(<< >>), Str(<<"a">>), Str(<<"A">>)},
     namespace : {Absent, Str(sNs)},
     labelSelector : {Absent},
     fieldSelector : {Absent},
     limit : {AbsentNum, Num(Float(5))},
     timeoutSeconds : {AbsentNum, Num(Float(1))},
     showDetails : {AbsentBool, Bool(TRUE)}]

HandlerLists ==
    {NilList,
     APIResourceList(gvEmpty, <<Pods>>),
     APIResourceList(gvCore, <<Pods, PoCRD>>),
     APIResourceList(gvApps, <<PoCRD, Pods>>),
     APIResourceList(gvNoVersion, <<Pods>>),
     APIResourceList(gvApps, <<NoName>>),
     APIResourceList(gvAppsUpper, <<Pods>>)}

PodItem ==
    [m |-> [kind |-> [s |-> <<"P","o","d">>],
            metadata |-> [m |-> [name |-> [s |-> <<"w","e","b">>],
                                 namespace |-> [s |-> <<"n","s">>]]],
            status |-> [m |-> [phase |-> [s |-> <<"U","p">>],
                               containerStatuses |->
                                   [a |-> << [m |-> [ready |-> [b |-> TRUE],
                                                     restartCount |-> [n |-> 2]]],
                                             [m |-> [ready |-> [b |-> FALSE],
                                                     restartCount |-> [n |-> 1]]] >>]]]]]
\* the answers of List
ItemLists == {<< >>, <<PodItem>>}

\* Handler up to its first call on the client (list.go:122-140)
Receive ==
    /\ pc = "idle"
    /\ \E a \in HandlerArgs, valid \in Verdicts, outOfRange \in OutOfRangeResults :
           LET p == parseAndValidateListParams(a, valid, outOfRange)
           IN  /\ args' = a
               /\ IF p.err # NoError
                  THEN /\ input' = ZeroInput
                       /\ mode' = "none"
                       /\ pc' = "done"
                       /\ result' = Failure(p.err)
                  ELSE /\ input' = p.input
                       /\ mode' = Dispatch(p.input)
                       /\ pc' = EntryOf(Dispatch(p.input))
                       /\ result' = NoResult
    /\ UNCHANGED <<apiResourceLists, gvrMatch, fetches, listCalls, ctxDone, answer,
                   secretVersions, fnIn, fnOut>>

\* variant: a failed ServerPreferredResources is called a second time before
\* the handler gives up
CatalogFailsRetried ==
    /\ \/ /\ fetches' = fetches
          /\ answer' = Answer("DiscoClient", "client", << >>)
          /\ result' = Failure(Errorf("failed to create discovery client", "client"))
       \/ /\ fetches' = fetches + 2
          /\ answer' = Answer("ServerPreferredResources", "discovery", << >>)
          /\ result' = Failure(Errorf("failed to discover resources", "discovery"))
    /\ pc' = "done"
    /\ UNCHANGED <<args, input, mode, apiResourceLists, gvrMatch, listCalls, ctxDone,
                   secretVersions, fnIn, fnOut>>

\* l.client.DiscoClient() or discoClient.ServerPreferredResources() returns an error
CatalogFails ==
    /\ \/ /\ fetches' = fetches
          /\ answer' = Answer("DiscoClient", "client", << >>)
          /\ result' = Failure(Errorf("failed to create discovery client", "client"))
       \/ /\ fetches' = fetches + 1
          /\ answer' = Answer("ServerPreferredResources", "discovery", << >>)
          /\ result' = Failure(Errorf("failed to discover resources", "discovery"))
    /\ pc' = "done"
    /\ UNCHANGED <<args, input, mode, apiResourceLists, gvrMatch, listCalls, ctxDone,
                   secretVersions, fnIn, fnOut>>

\* variant: the loop over the matches stops one entry early
DiscoveredTypesOneShort(matches) ==
    [i \in 1..(Len(matches) - 1) |->
        [kind |-> matches[i].apiRes.Kind,
         group |-> matches[i].groupVersion,
         resource |-> matches[i].apiRes.Name,
         namespaced |-> matches[i].namespaced,
         shortNames |-> matches[i].apiRes.ShortNames]]

\* list.go:192-201
DiscoveredTypes(matches) ==
    [i \in 1..Len(matches) |->
        [kind |-> matches[i].apiRes.Kind,
         group |-> matches[i].groupVersion,
         resource |-> matches[i].apiRes.Name,
         namespaced |-> matches[i].namespaced,
         shortNames |-> matches[i].apiRes.ShortNames]]

\* list.go:187-214: the document returned for the matches
DiscoveryResult(matches, groupFilter) ==
    IF Len(matches) = 0
    THEN Success("noResources",
                 [message |-> [text |-> "No resources found for group filter '%s'",
                               groupFilter |-> groupFilter],
                  availableResources |-> << >>])
    ELSE Success("discovery",
                 [groupFilter |-> groupFilter,
                  discoveredTypes |-> DiscoveredTypes(matches),
                  totalFound |-> Len(matches),
                  message |-> [text |-> "Found %d resource types matching group filter '%s'",
                               count |-> Len(matches), groupFilter |-> groupFilter]])

\* handleGroupDiscovery (list.go:170-215)
HandleGroupDiscovery ==
    /\ pc = "handleGroupDiscovery"
    /\ \/ CatalogFails
       \/ \E c \in CatalogsOver(HandlerLists) :
              /\ fetches' = fetches + 1
              /\ answer' = Answer("ServerPreferredResources", "none", << >>)
              /\ apiResourceLists' = c
              /\ result' = DiscoveryResult(findGVRsByGroupSubstring(c, input.GroupFilter),
                                           input.GroupFilter)
              /\ pc' = "done"
              /\ UNCHANGED <<args, input, mode, gvrMatch, listCalls, ctxDone,
                             secretVersions, fnIn, fnOut>>

\* variant: the short names are not compared
RECURSIVE GroupKindScanNoShortNames(_, _, _)
GroupKindScanNoShortNames(matches, kindLower, i) ==
    IF i > Len(matches) THEN NilMatch
    ELSE IF ToLower(matches[i].apiRes.Kind) = kindLower
            \/ ToLower(matches[i].apiRes.Name) = kindLower
         THEN matches[i]
    ELSE GroupKindScanNoShortNames(matches, kindLower, i + 1)

\* list.go:238-253: the first match whose kind, name or short name is kindLower
RECURSIVE GroupKindScan(_, _, _)
GroupKindScan(matches, kindLower, i) ==
    IF i > Len(matches) THEN NilMatch
    ELSE IF ToLower(matches[i].apiRes.Kind) = kindLower
            \/ ToLower(matches[i].apiRes.Name) = kindLower
         THEN matches[i]
    ELSE IF ShortNameScan(matches[i].apiRes.ShortNames, kindLower, 1) THEN matches[i]
    ELSE GroupKindScan(matches, kindLower, i + 1)

\* handleGroupFilteredList up to the listing (list.go:217-259)
HandleGroupFilteredList ==
    /\ pc = "handleGroupFilteredList"
    /\ \/ CatalogFails
       \/ \E c \in CatalogsOver(HandlerLists) :
              LET matches == findGVRsByGroupSubstring(c, input.GroupFilter)
                  found == GroupKindScan(matches, ToLower(input.Kind), 1)
              IN  /\ fetches' = fetches + 1
                  /\ answer' = Answer("ServerPreferredResources", "none", << >>)
                  /\ apiResourceLists' = c
                  /\ IF found.nil
                     THEN /\ result' = Failure(Errorf("kind not found in group filter", "none"))
                          /\ pc' = "done"
                          /\ gvrMatch' = gvrMatch
                     ELSE /\ gvrMatch' = found
                          /\ pc' = ListerOf(input)
                          /\ result' = result
                  /\ UNCHANGED <<args, input, mode, listCalls, ctxDone, secretVersions,
                                 fnIn, fnOut>>

\* discoverResourceByKind and its return into Handler (list.go:140-145, 283-296)
DiscoverResourceByKind ==
    /\ pc = "discoverResourceByKind"
    /\ \/ CatalogFails
       \/ \E c \in CatalogsOver(HandlerLists) :
              LET r == findGVRByKind(c, input.Kind)
              IN  /\ fetches' = fetches + 1
                  /\ answer' = Answer("ServerPreferredResources", "none", << >>)
                  /\ apiResourceLists' = c
                  /\ IF r.err # NoError
                     THEN /\ result' = Failure(r.err)
                          /\ pc' = "done"
                          /\ gvrMatch' = gvrMatch
                     ELSE /\ gvrMatch' = r.found
                          /\ pc' = ListerOf(input)
                          /\ result' = result
                  /\ UNCHANGED <<args, input, mode, listCalls, ctxDone, secretVersions,
                                 fnIn, fnOut>>

\* what is passed to ResourceInterface and List (list.go:300-306, 338-344)
ListCall(match, in) ==
    [gvr |-> ToGroupVersionResource(match),
     namespaced |-> match.namespaced,
     namespace |-> in.Namespace,
     options |-> buildListOptions(in)]

\* variant: the error of ri.List is replaced, not wrapped
ListErrorUnwrapped(cause) == Errorf("failed to list resources", "none")

\* the error of ri.List wrapped (list.go:308, 346)
ListError(cause) == Errorf("failed to list resources", cause)

RawList(items) == Success("raw", items)
\* var result []interface{} stays nil when there is no item (list.go:349)
Summaries(items) ==
    Success("summaries",
            Slice([i \in 1..Len(items) |-> Project(ToLower(gvrMatch.apiRes.Kind), items[i])]))

\* the errors ri.List(ctx, listOptions) can return: ctx is handed to the request
\* (list.go:306, 344), which ends with the error of ctx once ctx is done
ListFailures == IF ctxDone THEN {"canceled"} ELSE {"timeout", "other"}

\* the part listResourceDetails and listResourcesWithStatus share: the resource
\* interface is created and List is called; detailed tells which of the two runs
Listing(detailed) ==
    /\ pc' = "done"
    /\ IF ToGroupVersionResource(gvrMatch).nil
       THEN \* *gvrMatch.ToGroupVersionResource() dereferences nil
            /\ result' = [status |-> "panic", err |-> NoError, shape |-> "none", body |-> << >>]
            /\ listCalls' = listCalls
            /\ answer' = answer
       ELSE \/ /\ result' = Failure(Errorf("failed to create resource interface", "client"))
               /\ listCalls' = listCalls
               /\ answer' = Answer("ResourceInterface", "client", << >>)
            \/ \E cause \in ListFailures :
                   /\ listCalls' = Append(listCalls, ListCall(gvrMatch, input))
                   /\ answer' = Answer("List", cause, << >>)
                   /\ result' = Failure(ListError(cause))
            \/ /\ ~ctxDone
               /\ \E items \in ItemLists :
                      /\ listCalls' = Append(listCalls, ListCall(gvrMatch, input))
                      /\ answer' = Answer("List", "none", items)
                      /\ result' = IF detailed THEN RawList(items) ELSE Summaries(items)
    /\ UNCHANGED <<args, input, mode, apiResourceLists, gvrMatch, fetches, ctxDone,
                   secretVersions, fnIn, fnOut>>

\* listResourceDetails and the marshalling of its list (list.go:145-155, 260-269, 298-312)
ListResourceDetails ==
    /\ pc = "listResourceDetails"
    /\ Listing(TRUE)

\* listResourcesWithStatus and the marshalling of its summaries
\* (list.go:156-166, 270-279, 336-487)
ListResourcesWithStatus ==
    /\ pc = "listResourcesWithStatus"
    /\ Listing(FALSE)

\* Handler has returned; the tool holds nothing of the invocation (list.go:81-83)
Return ==
    /\ pc = "done"
    /\ pc' = "idle"
    /\ args' = IdleArgs
    /\ input' = ZeroInput
    /\ mode' = "none"
    /\ apiResourceLists' = << >>
    /\ gvrMatch' = NilMatch
    /\ fetches' = 0
    /\ listCalls' = << >>
    /\ result' = NoResult
    /\ ctxDone' = FALSE
    /\ answer' = NoAnswer
    /\ UNCHANGED <<secretVersions, fnIn, fnOut>>

\* the caller cancels ctx while Handler is at one of its calls on the cluster;
\* l.client.DiscoClient() and ServerPreferredResources() take no ctx
\* (list.go:172-177, 219-224, 285-290)
Cancel ==
    /\ pc \notin {"idle", "done"}
    /\ ~ctxDone
    /\ ctxDone' = TRUE
    /\ UNCHANGED <<pc, args, input, mode, apiResourceLists, gvrMatch, fetches, listCalls,
                   result, answer, secretVersions, fnIn, fnOut>>

Init ==
    /\ HandlerIdle
    /\ secretVersions = NoSecret
    /\ fnIn = IdleArgs
    /\ fnOut = NoQuery

Next ==
    \/ Receive
    \/ HandleGroupDiscovery
    \/ HandleGroupFilteredList
    \/ DiscoverResourceByKind
    \/ ListResourceDetails
    \/ ListResourcesWithStatus
    \/ Cancel
    \/ Return

Spec == Init /\ [][Next]_vars

(***************************************************************************)
(* Function specification: findGVRByKind and findGVRsByGroupSubstring      *)
(* applied to every bounded catalog and token.                             *)
(***************************************************************************)
ResourceSeqs == {<< >>, <<Pods>>, <<PoCRD>>, <<Pods, PoCRD>>, <<PoCRD, Pods>>}
ResolveLists ==
    {NilList} \cup {APIResourceList(gv, rs) : gv \in {gvEmpty, gvCore, gvApps, gvAppsUpper},
                                              rs \in ResourceSeqs}
\* kind tokens and group fragments
Tokens == {<< >>, <<"a">>, <<"A">>, <<"v","1">>, <<"P","o","d">>, <<"P","O">>,
           <<"p","o","d","s">>, <<"x">>}

NoOut == [op |-> "none", found |-> NilMatch, err |-> NoError, matches |-> << >>]

InitResolve ==
    /\ HandlerIdle
    /\ secretVersions = NoSecret
    /\ fnIn \in [catalog : CatalogsOver(ResolveLists), token : Tokens]
    /\ fnOut = NoOut

ResolveKind ==
    /\ fnOut.op = "none"
    /\ LET r == findGVRByKind(fnIn.catalog, fnIn.token)
       IN  fnOut' = [op |-> "findGVRByKind", found |-> r.found, err |-> r.err, matches |-> << >>]
    /\ UNCHANGED <<fnIn, secretVersions, handlerVars>>

MatchGroup ==
    /\ fnOut.op = "none"
    /\ fnOut' = [op |-> "findGVRsByGroupSubstring", found |-> NilMatch, err |-> NoError,
                 matches |-> findGVRsByGroupSubstring(fnIn.catalog, fnIn.token)]
    /\ UNCHANGED <<fnIn, secretVersions, handlerVars>>

NextResolve == ResolveKind \/ MatchGroup
SpecResolve == InitResolve /\ [][NextResolve]_vars

(***************************************************************************)
(* Function specification: parseAndValidateListParams followed by          *)
(* buildListOptions, applied to every bounded argument map.                *)
(***************************************************************************)
sPod == <<"P","o","d">>
sSel == <<"k","=","v">>
\* -1, 0, 0.5, 2, 2.5 and a value beyond the int64 range
Floats == {Float(-2), Float(0), Float(1), Float(4), Float(5), HugeFloat}
NormalizeArgs ==
    [kind : {Str(sPod)}, groupFilter : {Absent},
     namespace : {Absent, Str(<< >>), Str(sNs)},
     labelSelector : {Absent, Str(sSel)},
     fieldSelector : {Absent, Str(sSel)},
     limit : {AbsentNum} \cup {Num(f) : f \in Floats},
     timeoutSeconds : {AbsentNum} \cup {Num(f) : f \in Floats},
     showDetails : {AbsentBool}]

InitNormalize ==
    /\ HandlerIdle
    /\ secretVersions = NoSecret
    /\ fnIn \in NormalizeArgs
    /\ fnOut = NoQuery

\* the request parsed into an input, and the input turned into list options
Normalize ==
    /\ fnOut.op = "none"
    /\ \E valid \in Verdicts, outOfRange \in OutOfRangeResults :
           LET p == parseAndValidateListParams(fnIn, valid, outOfRange)
           IN  /\ p.err = NoError
               /\ fnOut' = [op |-> "normalize", err |-> NoError, input |-> p.input,
                            options |-> buildListOptions(p.input)]
    /\ UNCHANGED <<fnIn, secretVersions, handlerVars>>

\* the request rejected by a validator
NormalizeRejected ==
    /\ fnOut.op = "none"
    /\ \E valid \in Verdicts, outOfRange \in OutOfRangeResults :
           LET p == parseAndValidateListParams(fnIn, valid, outOfRange)
           IN  /\ p.err # NoError
               /\ fnOut' = [op |-> "rejected", err |-> p.err, input |-> p.input,
                            options |-> buildListOptions(ZeroInput)]
    /\ UNCHANGED <<fnIn, secretVersions, handlerVars>>

NextNormalize == Normalize \/ NormalizeRejected
SpecNormalize == InitNormalize /\ [][NextNormalize]_vars

(***************************************************************************)
(* Function specification: one pass of the projection loop of              *)
(* listResourcesWithStatus (list.go:350-485), applied to every bounded     *)
(* kind name of a descriptor and every bounded item.                       *)
(***************************************************************************)
\* the strings the bounded items, arguments and secrets are written with
Txt ==
    [web |-> <<"w","e","b">>,
     up |-> <<"U","p">>,
     http |-> <<"h","t","t","p">>,
     dns |-> <<"d","n","s">>,
     tcp |-> <<"T","C","P">>,
     udp |-> <<"U","D","P">>,
     ip2 |-> <<"3",".","4">>,
     ip |-> <<"1",".","2">>,
     lbHost |-> <<"l","b">>,
     hostA |-> <<"a",".","e","x">>,
     hostB |-> <<"b",".","e","x">>,
     active |-> <<"A","c","t","i","v","e">>,
     widget |-> <<"W","i","d","g","e","t">>,
     project |-> <<"p">>,
     secret |-> <<"s">>,
     keyK |-> <<"K">>,
     keyJ |-> <<"J">>,
     old |-> <<"1">>,
     fresh |-> <<"2">>]

JStr(v) == [s |-> v]
JNum(v) == [n |-> v]
JBool(v) == [b |-> v]
JMap(v) == [m |-> v]
JArr(v) == [a |-> v]

\* apiRes.Kind of the descriptor the items were listed with
ProjectKinds ==
    {<<"P","o","d">>, <<"P","O","D">>, <<"p","o","d">>, <<"P","o","d","s">>, <<"P","o">>,
     <<"D","e","p","l","o","y","m","e","n","t">>, <<"D","E","P","L","O","Y","M","E","N","T">>,
     <<"D","e","p","l","o","y">>,
     <<"S","e","r","v","i","c","e">>, <<"s","e","r","v","i","c","e","s">>,
     <<"I","n","g","r","e","s","s">>, <<"I","N","G","R","E","S","S">>,
     <<"I","n","g","r","e","s","s","C","l","a","s","s">>,
     Txt.widget, << >>}

\* one entry of status.containerStatuses
ContainerStatus(ready, restartCount) ==
    JMap([ready |-> JBool(ready), restartCount |-> JNum(restartCount)])

\* the values status.containerStatuses can hold
ContainerStatusArrays ==
    {JArr(<< >>),
     JArr(<<ContainerStatus(TRUE, 2), ContainerStatus(FALSE, 1)>>),
     JArr(<<ContainerStatus(TRUE, 2), ContainerStatus(TRUE, 0)>>),
     JArr(<<ContainerStatus(FALSE, 12), ContainerStatus(TRUE, 3)>>),
     JArr(<<JMap([ready |-> JBool(TRUE)])>>),
     JArr(<<JMap([restartCount |-> JNum(4)])>>),
     JArr(<<JStr(Txt.up), ContainerStatus(TRUE, 1)>>),
     JStr(Txt.up)}

\* the status of a Pod
PodStatuses ==
    {JStr(Txt.up), JMap(EmptyMap), JMap([phase |-> JStr(Txt.up), startTime |-> JStr(Txt.ip)])}
    \cup {JMap([phase |-> JStr(Txt.up), containerStatuses |-> cs]) : cs \in ContainerStatusArrays}

\* the status of a Deployment
DeploymentStatuses ==
    {JMap([replicas |-> JNum(3)]),
     JMap([replicas |-> JNum(3), availableReplicas |-> JNum(2), unavailableReplicas |-> JNum(1),
           updatedReplicas |-> JNum(4), readyReplicas |-> JNum(5)]),
     JMap([replicas |-> JStr(Txt.up), readyReplicas |-> JNum(1)]),
     JMap([availableReplicas |-> JNum(2), updatedReplicas |-> JBool(TRUE)]),
     JMap([phase |-> JStr(Txt.active)])}

\* one entry of spec.ports
PortEntries ==
    {JMap([name |-> JStr(Txt.http), port |-> JNum(80), protocol |-> JStr(Txt.tcp)]),
     JMap([port |-> JNum(443)]),
     JMap([name |-> JStr(Txt.dns), protocol |-> JStr(Txt.udp)]),
     JMap([name |-> JNum(7), port |-> JNum(8080)]),
     JStr(Txt.http)}

\* the spec of a Service
ServiceSpecs ==
    {JMap([type |-> JStr(Txt.up)]), JMap([clusterIP |-> JStr(Txt.ip), ports |-> JStr(Txt.http)]),
     JMap([type |-> JStr(Txt.up), clusterIP |-> JStr(Txt.ip), ports |-> JArr(<< >>)])}
    \cup {JMap([clusterIP |-> JStr(Txt.ip), ports |-> JArr(<<p>>)]) : p \in PortEntries}
    \cup {JMap([type |-> JStr(Txt.up), ports |-> JArr(<<p, q>>)]) : p, q \in PortEntries}

\* the status of an Ingress
IngressStatuses ==
    {JMap(EmptyMap), JMap([loadBalancer |-> JMap(EmptyMap)]),
     JMap([loadBalancer |-> JStr(Txt.lbHost)]),
     JMap([loadBalancer |-> JMap([ingress |-> JArr(<< >>)])]),
     JMap([loadBalancer |-> JMap([ingress |->
         JArr(<<JMap([ip |-> JStr(Txt.ip)]), JMap([hostname |-> JStr(Txt.lbHost)])>>)])]),
     JMap([loadBalancer |-> JMap([ingress |->
         JArr(<<JMap([hostname |-> JStr(Txt.lbHost), ip |-> JStr(Txt.ip)]),
                JMap([ip |-> JStr(Txt.ip2)])>>)])]),
     JMap([loadBalancer |-> JMap([ingress |->
         JArr(<<JMap([ports |-> JArr(<< >>)]), JMap([hostname |-> JStr(Txt.lbHost)]),
                JMap([ip |-> JStr(Txt.ip)])>>)])])}

\* the spec of an Ingress
IngressSpecs ==
    {JMap(EmptyMap), JMap([rules |-> JArr(<< >>)]),
     JMap([rules |-> JArr(<<JMap([host |-> JStr(Txt.hostA)]), JMap([host |-> JStr(Txt.hostB)])>>)]),
     JMap([rules |-> JArr(<<JMap([host |-> JStr(Txt.hostB)]), JMap([http |-> JMap(EmptyMap)]),
                            JMap([host |-> JStr(Txt.hostA)])>>)])}

\* item.Object with the given kind and sections; a section is left out of the
\* object when present is FALSE
Object(kind, hasStatus, status, hasSpec, spec) ==
    JMap([kind |-> JStr(kind),
          metadata |-> JMap([name |-> JStr(Txt.web), namespace |-> JStr(sNs)])]
         @@ (IF hasStatus THEN [status |-> status] ELSE EmptyMap)
         @@ (IF hasSpec THEN [spec |-> spec] ELSE EmptyMap))

\* the items ri.List can return
ProjectItems ==
    {Object(Txt.widget, FALSE, JMap(EmptyMap), FALSE, JMap(EmptyMap)),
     JMap([kind |-> JStr(Txt.widget), metadata |-> JMap([name |-> JStr(Txt.web)]),
           status |-> JMap([phase |-> JStr(Txt.active)])])}
    \cup {Object(sPod, TRUE, st, FALSE, JMap(EmptyMap)) : st \in PodStatuses}
    \cup {Object(<<"D","e","p","l","o","y","m","e","n","t">>, TRUE, st, FALSE, JMap(EmptyMap)) :
              st \in DeploymentStatuses}
    \cup {Object(<<"S","e","r","v","i","c","e">>, FALSE, JMap(EmptyMap), TRUE, sp) :
              sp \in ServiceSpecs}
    \cup {Object(<<"I","n","g","r","e","s","s">>, TRUE, st, TRUE, sp) :
              st \in IngressStatuses, sp \in IngressSpecs}
    \cup {Object(<<"I","n","g","r","e","s","s">>, FALSE, JMap(EmptyMap), TRUE, sp) :
              sp \in IngressSpecs}

NoSummary == [op |-> "none", summary |-> extractResourceStatus(JMap(EmptyMap))]

InitProject ==
    /\ HandlerIdle
    /\ secretVersions = NoSecret
    /\ fnIn \in [kind : ProjectKinds, item : ProjectItems]
    /\ fnOut = NoSummary

\* the body of the loop over unstructList.Items for one item (list.go:350-485)
ProjectItem ==
    /\ fnOut.op = "none"
    /\ fnOut' = [op |-> "project", summary |-> Project(ToLower(fnIn.kind), fnIn.item)]
    /\ UNCHANGED <<fnIn, secretVersions, handlerVars>>

NextProject == ProjectItem
SpecProject == InitProject /\ [][NextProject]_vars

(***************************************************************************)
(* Function specification: the projection of one item run twice, with a    *)
(* holder of the first summary writing into its Status in between.  The    *)
(* maps live in two cells: object is item.Object, copy is the map that     *)
(* unstructured.NestedMap(obj, "status") hands out.                        *)
(***************************************************************************)
\* variant: resource.Status is obj.Object["status"] itself, asserted to a map
\* without a copy
StatusCellShared == "object"

\* the cell the maps read by the projection come from: NestedMap returns a deep
\* copy of the nested map (list.go:358, 389, 413, 447, 466, 498), which is what
\* resource.Status holds (list.go:499)
StatusCell == "copy"

\* the first pass of the loop body over the item (list.go:351-484)
ProjectFirst ==
    /\ fnOut.op = "none"
    /\ fnOut' = [op |-> "first",
                 summary |-> Project(ToLower(fnIn.kind), fnIn.item),
                 object |-> fnIn.item,
                 copy |-> NestedMap(fnIn.item, "status"),
                 second |-> fnOut.summary]
    /\ UNCHANGED <<fnIn, secretVersions, handlerVars>>

\* whoever holds the generic summary of the first pass sets a key of its Status
HolderWritesStatus ==
    /\ fnOut.op = "first"
    /\ "hasStatus" \in DOMAIN fnOut.summary
    /\ fnOut.summary.hasStatus
    /\ LET Written(map) ==
               [k \in DOMAIN map \cup {"edited"} |->
                    IF k = "edited" THEN JBool(TRUE) ELSE map[k]]
       IN  fnOut' = IF StatusCell = "copy"
                    THEN [fnOut EXCEPT !.op = "written", !.copy = Written(@)]
                    ELSE [fnOut EXCEPT !.op = "written",
                                       !.object.m.status.m = Written(@)]
    /\ UNCHANGED <<fnIn, secretVersions, handlerVars>>

\* the second pass over the same item
ProjectSecond ==
    /\ fnOut.op \in {"first", "written"}
    /\ fnOut' = [fnOut EXCEPT !.op = "second",
                              !.second = Project(ToLower(fnIn.kind), fnOut.object)]
    /\ UNCHANGED <<fnIn, secretVersions, handlerVars>>

NextProjectTwice == ProjectFirst \/ HolderWritesStatus \/ ProjectSecond
SpecProjectTwice == InitProject /\ [][NextProjectTwice]_vars

(***************************************************************************)
(* Concurrent invocations of ListTool.Handler.  fnIn[i] is the argument    *)
(* map of invocation i and fnOut[i] its locals: Handler has a value        *)
(* receiver and ListTool holds nothing but the client (list.go:80-88,      *)
(* 122), so the locals are all the state an invocation has.                *)
(***************************************************************************)
MaxInvocations == 2

\* the requests, the catalogs ServerPreferredResources answers with and the
\* item lists List answers with
ConcurrentWorld ==
    [args |-> {a \in HandlerArgs :
                   /\ a.kind \in {Str(sPO), Str(sAll)}
                   /\ a.groupFilter \in {Absent, Str(<<"a">>)}
                   /\ (a.kind = Str(sAll) => a.groupFilter # Absent /\ a.showDetails = AbsentBool)
                   /\ a.namespace = Absent
                   /\ a.limit = AbsentNum
                   /\ a.timeoutSeconds = AbsentNum},
     catalogs |-> {<< >>,
                   <<APIResourceList(gvApps, <<Pods>>)>>,
                   <<APIResourceList(gvApps, <<PoCRD, Pods>>)>>},
     items |-> ItemLists]

\* variant: the catalog is kept in a cache that the first invocation to fetch
\* one fills and every invocation reads
CatalogReadShared(runs, i) ==
    LET fetched == {j \in DOMAIN runs : runs[j].fetch.err = "none" /\ runs[j].fetch.call # "none"}
    IN  runs[CHOOSE j \in fetched : \A k \in fetched : j <= k].fetch.catalog

\* the catalog invocation i resolves against: its local apiResourceLists
\* (list.go:177, 224, 290)
CatalogRead(runs, i) == runs[i].fetch.catalog

InitConcurrent ==
    /\ HandlerIdle
    /\ secretVersions = NoSecret
    /\ fnIn \in [1..MaxInvocations -> ConcurrentWorld.args]
    /\ fnOut = [i \in 1..MaxInvocations |->
                   [pc |-> "idle", input |-> ZeroInput, mode |-> "none",
                    fetch |-> [call |-> "none", err |-> "none", catalog |-> << >>],
                    gvrMatch |-> NilMatch,
                    list |-> NoAnswer,
                    result |-> NoResult]]

\* invocation i up to its first call on the client (list.go:122-140); the
\* validators accept the request
Start(i) ==
    /\ fnOut[i].pc = "idle"
    /\ LET p == parseAndValidateListParams(
                    fnIn[i], [kind |-> TRUE, namespace |-> TRUE, labelSelector |-> TRUE], MaxInt64)
       IN  fnOut' = [fnOut EXCEPT ![i] =
                        IF p.err # NoError
                        THEN [@ EXCEPT !.pc = "done", !.result = Failure(p.err)]
                        ELSE [@ EXCEPT !.pc = EntryOf(Dispatch(p.input)),
                                       !.input = p.input,
                                       !.mode = Dispatch(p.input)]]
    /\ UNCHANGED <<fnIn, secretVersions, handlerVars>>

\* invocation i from its catalog fetch to the return or the listing
\* (list.go:171-215, 218-259, 140-144 with 284-296)
Fetch(i) ==
    /\ fnOut[i].pc \in {"handleGroupDiscovery", "handleGroupFilteredList",
                        "discoverResourceByKind"}
    /\ \/ fnOut' = [fnOut EXCEPT ![i] =
                       [@ EXCEPT !.pc = "done",
                                 !.fetch = [call |-> "DiscoClient",
                                            err |-> "client", catalog |-> << >>],
                                 !.result = Failure(Errorf("failed to create discovery client",
                                                           "client"))]]
       \/ fnOut' = [fnOut EXCEPT ![i] =
                       [@ EXCEPT !.pc = "done",
                                 !.fetch = [call |-> "ServerPreferredResources",
                                            err |-> "discovery", catalog |-> << >>],
                                 !.result = Failure(Errorf("failed to discover resources",
                                                           "discovery"))]]
       \/ \E c \in ConcurrentWorld.catalogs :
              LET fetched == [fnOut EXCEPT ![i].fetch =
                                 [call |-> "ServerPreferredResources", err |-> "none",
                                  catalog |-> c]]
                  lists == CatalogRead(fetched, i)
                  in == fnOut[i].input
                  r == findGVRByKind(lists, in.Kind)
                  found == GroupKindScan(findGVRsByGroupSubstring(lists, in.GroupFilter),
                                         ToLower(in.Kind), 1)
              IN  fnOut' = [fetched EXCEPT ![i] =
                      CASE @.mode = "discovery" ->
                               [@ EXCEPT !.pc = "done",
                                         !.result = DiscoveryResult(
                                             findGVRsByGroupSubstring(lists, in.GroupFilter),
                                             in.GroupFilter)]
                        [] @.mode = "filtered" ->
                               IF found.nil
                               THEN [@ EXCEPT !.pc = "done",
                                              !.result = Failure(Errorf(
                                                  "kind not found in group filter", "none"))]
                               ELSE [@ EXCEPT !.pc = ListerOf(in), !.gvrMatch = found]
                        [] @.mode = "direct" ->
                               IF r.err # NoError
                               THEN [@ EXCEPT !.pc = "done", !.result = Failure(r.err)]
                               ELSE [@ EXCEPT !.pc = ListerOf(in), !.gvrMatch = r.found]]
    /\ UNCHANGED <<fnIn, secretVersions, handlerVars>>

\* invocation i from its list call to the return (list.go:299-312, 337-487)
List(i) ==
    /\ fnOut[i].pc \in {"listResourceDetails", "listResourcesWithStatus"}
    /\ \/ fnOut' = [fnOut EXCEPT ![i] =
                       [@ EXCEPT !.pc = "done",
                                 !.list = Answer("Resource", "client", << >>),
                                 !.result = Failure(Errorf("failed to create resource interface",
                                                           "client"))]]
       \/ \E cause \in {"timeout", "other"} :
              fnOut' = [fnOut EXCEPT ![i] =
                  [@ EXCEPT !.pc = "done",
                            !.list = Answer("List", cause, << >>),
                            !.result = Failure(ListError(cause))]]
       \/ \E items \in ConcurrentWorld.items :
              fnOut' = [fnOut EXCEPT ![i] =
                  [@ EXCEPT !.pc = "done",
                            !.list = Answer("List", "none", items),
                            !.result =
                                IF fnOut[i].pc = "listResourceDetails" THEN RawList(items)
                                ELSE Success("summaries",
                                         Slice([k \in 1..Len(items) |->
                                             Project(ToLower(fnOut[i].gvrMatch.apiRes.Kind),
                                                     items[k])]))]]
    /\ UNCHANGED <<fnIn, secretVersions, handlerVars>>

NextConcurrent == \E i \in 1..MaxInvocations : Start(i) \/ Fetch(i) \/ List(i)
SpecConcurrent == InitConcurrent /\ [][NextConcurrent]_vars

(***************************************************************************)
(* The change_env tool (ChangeEnvTool.Handler) against Secret Manager      *)
(***************************************************************************)
\* a value of req.Params.Arguments: missing or nil, a string, or a value of
\* another type, on which v.(string) panics
NoArg == [present |-> FALSE, isString |-> FALSE, val |-> << >>]
StrArg(v) == [present |-> TRUE, isString |-> TRUE, val |-> v]
OtherArg == [present |-> TRUE, isString |-> FALSE, val |-> << >>]

ChangeEnvArgs ==
    [projectId : {NoArg, StrArg(Txt.project)},
     secretName : {NoArg, StrArg(Txt.secret)},
     key : {NoArg, StrArg(Txt.keyK), StrArg(Txt.keyJ), OtherArg},
     newValue : {NoArg, StrArg(Txt.fresh)}]

\* os.Getenv of the three variables the handler reads, "" when unset
ChangeEnvEnvs ==
    [GCP_SECRET_NAME : {<< >>, Txt.secret},
     GOOGLE_CLOUD_PROJECT : {<< >>, Txt.project},
     GOOGLE_APPLICATION_CREDENTIALS : {<< >>, <<"c">>}]

\* the payload of a secret version: a JSON object, or bytes that are none
JSONObject(data) == [object |-> TRUE, data |-> data]
NotJSON == [object |-> FALSE, data |-> EmptyMap]
\* the states of the secret the handler can meet
SecretStores ==
    {NoSecret,
     <<NotJSON>>,
     <<JSONObject([K |-> Txt.old])>>,
     <<JSONObject([J |-> Txt.old])>>,
     <<JSONObject([K |-> Txt.old]), JSONObject([K |-> Txt.old, J |-> Txt.old])>>}

\* the field name under which a key is held in the model of a JSON object
FieldOf(key) == IF key = Txt.keyK THEN "K" ELSE IF key = Txt.keyJ THEN "J" ELSE "other"

ZeroChangeEnvInput == [ProjectID |-> << >>, SecretName |-> << >>, Key |-> << >>, NewValue |-> << >>]

\* parseAndValidateChangeEnvParams (part_001:165-182); returns (input, err),
\* or panics on a value that is not a string
parseAndValidateChangeEnvParams(a) ==
    LET Field(v) == IF v.present THEN v.val ELSE << >>
        in == [ProjectID |-> Field(a.projectId), SecretName |-> Field(a.secretName),
               Key |-> Field(a.key), NewValue |-> Field(a.newValue)]
    IN  IF \E f \in DOMAIN a : a[f].present /\ ~a[f].isString
        THEN [panic |-> TRUE, input |-> ZeroChangeEnvInput, err |-> NoError]
        ELSE IF in.SecretName = << >> \/ in.Key = << >> \/ in.NewValue = << >>
             THEN [panic |-> FALSE, input |-> ZeroChangeEnvInput,
                   err |-> Errorf("secretName, key, and newValue are required", "none")]
        ELSE [panic |-> FALSE, input |-> in, err |-> NoError]

ChangeEnvOut(status, err, text, local) ==
    [op |-> "change_env", status |-> status, err |-> err, text |-> text,
     before |-> secretVersions, local |-> local]
ChangeEnvFailure(err) == ChangeEnvOut("error", err, "", EmptyMap)
NoChangeEnvOut ==
    [op |-> "none", status |-> "none", err |-> NoError, text |-> "", before |-> NoSecret,
     local |-> EmptyMap]

InitChangeEnv ==
    /\ HandlerIdle
    /\ secretVersions \in SecretStores
    /\ fnIn \in [args : ChangeEnvArgs, env : ChangeEnvEnvs]
    /\ fnOut = NoChangeEnvOut

\* the handler stops before it reaches Secret Manager (part_001:91-119)
ChangeEnvRejected ==
    /\ fnOut.op = "none"
    /\ LET p == parseAndValidateChangeEnvParams(fnIn.args)
           projectID == IF p.input.ProjectID = << >> THEN fnIn.env.GOOGLE_CLOUD_PROJECT
                        ELSE p.input.ProjectID
       IN  \/ /\ p.panic
              /\ fnOut' = ChangeEnvOut("panic", NoError, "", EmptyMap)
           \/ /\ ~p.panic
              /\ p.err # NoError
              /\ fnOut' = ChangeEnvFailure(Errorf("failed to parse input", "none"))
           \/ /\ ~p.panic
              /\ p.err = NoError
              /\ \/ /\ fnIn.env.GCP_SECRET_NAME = << >>
                    /\ fnOut' = ChangeEnvFailure(Errorf(
                           "GCP_SECRET_NAME environment variable must be set for secret name",
                           "none"))
                 \/ /\ fnIn.env.GCP_SECRET_NAME # << >>
                    /\ projectID = << >>
                    /\ fnOut' = ChangeEnvFailure(Errorf("projectId must be provided", "none"))
                 \/ /\ fnIn.env.GCP_SECRET_NAME # << >>
                    /\ projectID # << >>
                    /\ fnIn.env.GOOGLE_APPLICATION_CREDENTIALS = << >>
                    /\ fnOut' = ChangeEnvFailure(Errorf("google credentials not found", "none"))
                 \/ /\ fnIn.env.GCP_SECRET_NAME # << >>
                    /\ projectID # << >>
                    /\ fnIn.env.GOOGLE_APPLICATION_CREDENTIALS # << >>
                    /\ fnOut' = ChangeEnvFailure(Errorf("failed to create secretmanager client",
                                                        "client"))
    /\ UNCHANGED <<fnIn, secretVersions, handlerVars>>

\* the handler from AccessSecretVersion to its return (part_001:121-163).  The
\* modified map lives in secretData only: the result of json.MarshalIndent is
\* dropped and the AddSecretVersion call is commented out (part_001:138-152),
\* so the handler makes no write on Secret Manager.
ChangeEnvHandler ==
    /\ fnOut.op = "none"
    /\ LET p == parseAndValidateChangeEnvParams(fnIn.args)
           projectID == IF p.input.ProjectID = << >> THEN fnIn.env.GOOGLE_CLOUD_PROJECT
                        ELSE p.input.ProjectID
           latest == secretVersions[Len(secretVersions)]
           key == FieldOf(p.input.Key)
       IN  /\ ~p.panic
           /\ p.err = NoError
           /\ fnIn.env.GCP_SECRET_NAME # << >>
           /\ projectID # << >>
           /\ fnIn.env.GOOGLE_APPLICATION_CREDENTIALS # << >>
           /\ \/ fnOut' = ChangeEnvFailure(Errorf("failed to access secret", "secretmanager"))
              \/ /\ secretVersions # NoSecret
                 /\ IF ~latest.object
                    THEN fnOut' = ChangeEnvFailure(Errorf("failed to parse secret JSON", "json"))
                    ELSE IF key \notin DOMAIN latest.data
                    THEN fnOut' = ChangeEnvFailure(Errorf("key not found in secret", "none"))
                    ELSE fnOut' = ChangeEnvOut("ok", NoError,
                                      "Secret updated and new version created",
                                      [latest.data EXCEPT ![key] = p.input.NewValue])
    /\ secretVersions' = secretVersions
    /\ UNCHANGED <<fnIn, handlerVars>>

NextChangeEnv == ChangeEnvRejected \/ ChangeEnvHandler
SpecChangeEnv == InitChangeEnv /\ [][NextChangeEnv]_vars

(***************************************************************************)
(* Properties of the resolver and the group matcher                        *)
(***************************************************************************)
UpperLetters ==
    <<"A", "B", "C", "D", "E", "F", "G", "H", "I", "J", "K", "L", "M",
      "N", "O", "P", "Q", "R", "S", "T", "U", "V", "W", "X", "Y", "Z">>
LowerLetters ==
    <<"a", "b", "c", "d", "e", "f", "g", "h", "i", "j", "k", "l", "m",
      "n", "o", "p", "q", "r", "s", "t", "u", "v", "w", "x", "y", "z">>
CasePairs == {<<UpperLetters[i], LowerLetters[i]>> : i \in 1..Len(UpperLetters)}
SameLetter(c, d) == c = d \/ <<c, d>> \in CasePairs \/ <<d, c>> \in CasePairs
\* equality of two strings up to the case of their letters
EqualFold(a, b) == Len(a) = Len(b) /\ \A i \in 1..Len(a) : SameLetter(a[i], b[i])

\* the descriptor carries the token as plural name, kind or short alias
TokenMatches(r, token) ==
    \/ EqualFold(r.Name, token)
    \/ EqualFold(r.Kind, token)
    \/ \E k \in 1..Len(r.ShortNames) : EqualFold(r.ShortNames[k], token)

\* positions <<list, resource>> of the descriptors of a catalog that carry the token
MatchPositions(catalog, token) ==
    UNION {{<<j, i>> : i \in {i \in 1..Len(catalog[j].APIResources) :
                                  TokenMatches(catalog[j].APIResources[i], token)}} :
           j \in {j \in 1..Len(catalog) : ~catalog[j].nil}}
Before(p, q) == p[1] < q[1] \/ (p[1] = q[1] /\ p[2] < q[2])
FirstPosition(ps) == CHOOSE p \in ps : \A q \in ps : q = p \/ Before(p, q)
DescriptorAt(catalog, p) == catalog[p[1]].APIResources[p[2]]

\* C1: findGVRByKind returns the first descriptor, in catalog order (lists in
\* order, resources within a list in order), whose plural name, kind or short
\* alias equals the token up to case; it never returns a later one, and the
\* descriptor, its group/version string and its namespaced flag are carried
\* unchanged.  It fails exactly when there is no such descriptor or the first
\* one has an empty group/version string.
C1_ResolveReturnsFirstMatch ==
    fnOut.op = "findGVRByKind" =>
        LET ps == MatchPositions(fnIn.catalog, fnIn.token)
        IN  IF ps = {} \/ fnIn.catalog[FirstPosition(ps)[1]].GroupVersion = << >>
            THEN fnOut.found.nil /\ fnOut.err.msg = "cannot find resource"
            ELSE LET p == FirstPosition(ps)
                 IN  /\ fnOut.err = NoError
                     /\ ~fnOut.found.nil
                     /\ fnOut.found.apiRes = DescriptorAt(fnIn.catalog, p)
                     /\ fnOut.found.groupVersion = fnIn.catalog[p[1]].GroupVersion
                     /\ fnOut.found.namespaced = DescriptorAt(fnIn.catalog, p).Namespaced
                     /\ ToGroupVersionResource(fnOut.found).Resource
                            = DescriptorAt(fnIn.catalog, p).Name

\* a token typed in another case than the names, matched by two different
\* descriptors, resolved to the first of them
C1_Witness ==
    /\ fnOut.op = "findGVRByKind"
    /\ ~fnOut.found.nil
    /\ fnIn.token = <<"P","O">>
    /\ \E p, q \in MatchPositions(fnIn.catalog, fnIn.token) :
           /\ Before(p, q)
           /\ DescriptorAt(fnIn.catalog, p) # DescriptorAt(fnIn.catalog, q)
           /\ fnOut.found.apiRes = DescriptorAt(fnIn.catalog, p)

\* C2 as stated: whenever some descriptor carries the token, findGVRByKind
\* succeeds with a descriptor that carries it.
C2_MatchNeverNotFound ==
    (fnOut.op = "findGVRByKind" /\ MatchPositions(fnIn.catalog, fnIn.token) # {}) =>
        /\ fnOut.err = NoError
        /\ ~fnOut.found.nil
        /\ TokenMatches(fnOut.found.apiRes, fnIn.token)

\* C2 amended: whenever some descriptor carries the token and the first such
\* descriptor in catalog order belongs to a list with a non-empty group/version
\* string, findGVRByKind succeeds with a descriptor that carries the token;
\* when that first list has an empty group/version string it fails.
C2_MatchWithGroupVersionNeverNotFound ==
    (fnOut.op = "findGVRByKind" /\ MatchPositions(fnIn.catalog, fnIn.token) # {}) =>
        LET p == FirstPosition(MatchPositions(fnIn.catalog, fnIn.token))
        IN  IF fnIn.catalog[p[1]].GroupVersion # << >>
            THEN /\ fnOut.err = NoError
                 /\ ~fnOut.found.nil
                 /\ TokenMatches(fnOut.found.apiRes, fnIn.token)
            ELSE fnOut.err # NoError

\* a token that differs in case from the alias it matches, resolved
C2_Witness ==
    /\ fnOut.op = "findGVRByKind"
    /\ fnOut.err = NoError
    /\ fnIn.token = <<"P","O">>
    /\ fnOut.found.apiRes = Pods
    /\ \E j \in 1..Len(fnIn.catalog) : fnIn.catalog[j].GroupVersion = << >>

\* every <<list, resource>> position of the catalog, in catalog order
RECURSIVE PositionsFrom(_, _)
PositionsFrom(catalog, j) ==
    IF j > Len(catalog) THEN << >>
    ELSE [i \in 1..Len(catalog[j].APIResources) |-> <<j, i>>] \o PositionsFrom(catalog, j + 1)

\* the positions whose list has a group/version string containing the fragment
GroupPositions(catalog, fragment) ==
    LET InGroup(p) == Contains(catalog[p[1]].GroupVersion, fragment)
    IN  SelectSeq(PositionsFrom(catalog, 1), InGroup)

SameNumber(v, f) == v.sat = 0 /\ ~f.huge /\ 2 * v.n = f.halves
LimitPresent(o) == o.Limit # I64(0)
SuppliedPositive(a) == a.ok /\ FloatGtZero(a.val)

\* C9 as stated: the limit is present only if a value > 0 was supplied, the
\* timeout is the supplied value when that is positive and 30 otherwise, the
\* namespace scope is all namespaces when the namespace is empty or absent, and
\* the timeout is strictly positive.
C9_NormalizeDefaults ==
    fnOut.op = "normalize" =>
        /\ (LimitPresent(fnOut.options) => SuppliedPositive(fnIn.limit))
        /\ IF SuppliedPositive(fnIn.timeoutSeconds)
           THEN SameNumber(fnOut.options.TimeoutSeconds, fnIn.timeoutSeconds.val)
           ELSE fnOut.options.TimeoutSeconds = I64(30)
        /\ ((~fnIn.namespace.ok \/ fnIn.namespace.val = << >>) =>
                fnOut.input.Namespace = NamespaceAll)
        /\ Int64GtZero(fnOut.options.TimeoutSeconds)

\* C9 amended: the limit is present only if a value > 0 was supplied; the
\* timeout is the supplied value cut to its whole part when that part is at
\* least 1, it is 30 when no value, a value below 1 or a non-number was
\* supplied, and for a value beyond the 64-bit range it is whatever positive
\* integer the conversion gives, or 30; the namespace scope is all namespaces
\* when the namespace is empty or absent; the timeout is strictly positive.
C9_NormalizeDefaultsWholePart ==
    fnOut.op = "normalize" =>
        LET t == fnOut.options.TimeoutSeconds
            a == fnIn.timeoutSeconds
        IN  /\ (LimitPresent(fnOut.options) => SuppliedPositive(fnIn.limit))
            /\ IF a.ok /\ a.val.huge THEN t \in {MaxInt64, I64(30)}
               ELSE IF a.ok /\ a.val.halves >= 2
                    THEN /\ t.sat = 0
                         /\ 2 * t.n <= a.val.halves
                         /\ a.val.halves < 2 * (t.n + 1)
               ELSE t = I64(30)
            /\ ((~fnIn.namespace.ok \/ fnIn.namespace.val = << >>) =>
                    fnOut.input.Namespace = NamespaceAll)
            /\ Int64GtZero(t)

\* a fractional timeout above 1 and a fractional limit below 1 were supplied
\* with an empty namespace
C9_Witness ==
    /\ fnOut.op = "normalize"
    /\ fnIn.timeoutSeconds = Num(Float(5))
    /\ fnOut.options.TimeoutSeconds = I64(2)
    /\ fnIn.limit = Num(Float(1))
    /\ ~LimitPresent(fnOut.options)
    /\ fnIn.namespace = Str(<< >>)

(***************************************************************************)
(* Properties of the handler                                               *)
(***************************************************************************)
GroupFilterGiven == args.groupFilter.ok /\ args.groupFilter.val # << >>
KindAbsent == ~args.kind.ok \/ args.kind.val = << >>
\* ServerPreferredResources has answered with a catalog
CatalogFetched == fetches = 1 /\ result.err.msg # "failed to discover resources"

\* C3: no list call carries a coordinate with an empty version or an empty
\* plural name.
C3_NoInvalidCoordinateListed ==
    \A i \in 1..Len(listCalls) :
        /\ listCalls[i].gvr.Version # << >>
        /\ listCalls[i].gvr.Resource # << >>

\* C5: an invocation that is not rejected runs in exactly one mode: discovery
\* when a group filter is given and the kind is absent or "all", filtered-kind
\* when a group filter is given with any other kind, direct resolution when no
\* group filter is given; without group filter and kind it is rejected before
\* any call on the client.
C5_ModeSelection ==
    pc # "idle" =>
        /\ mode \in {"none", "discovery", "filtered", "direct"}
        /\ (mode = "none" =>
                /\ pc = "done"
                /\ result.status = "error"
                /\ fetches = 0
                /\ listCalls = << >>)
        /\ (mode # "none" =>
                mode = IF GroupFilterGiven
                       THEN IF KindAbsent \/ args.kind.val = sAll THEN "discovery" ELSE "filtered"
                       ELSE "direct")
        /\ ((~GroupFilterGiven /\ KindAbsent) => mode = "none")
        /\ (mode = "discovery" => pc \in {"handleGroupDiscovery", "done"})
        /\ (mode = "filtered" =>
                pc \in {"handleGroupFilteredList", "listResourceDetails",
                        "listResourcesWithStatus", "done"})
        /\ (mode = "direct" =>
                pc \in {"discoverResourceByKind", "listResourceDetails",
                        "listResourcesWithStatus", "done"})

\* kind "all" with an upper-case group filter has entered handleGroupDiscovery
C5_Witness ==
    /\ mode = "discovery"
    /\ pc = "handleGroupDiscovery"
    /\ args.kind = Str(sAll)
    /\ args.groupFilter = Str(<<"A">>)

\* C6: an invocation in discovery mode issues no list call on any path; its
\* only call on the cluster is one catalog fetch, and what it returns is made
\* of the descriptors whose group/version string contains the fragment.
C6_DiscoveryNeverLists ==
    mode = "discovery" =>
        /\ listCalls = << >>
        /\ fetches <= 1
        /\ gvrMatch = NilMatch
        /\ (result.shape = "discovery" =>
                LET ps == GroupPositions(apiResourceLists, ToLower(input.GroupFilter))
                    dt == result.body.discoveredTypes
                IN  /\ Len(dt) = Len(ps)
                    /\ \A n \in 1..Len(ps) :
                           /\ dt[n].kind = DescriptorAt(apiResourceLists, ps[n]).Kind
                           /\ dt[n].resource = DescriptorAt(apiResourceLists, ps[n]).Name
                           /\ dt[n].shortNames = DescriptorAt(apiResourceLists, ps[n]).ShortNames
                           /\ dt[n].namespaced = DescriptorAt(apiResourceLists, ps[n]).Namespaced
                           /\ dt[n].group = apiResourceLists[ps[n][1]].GroupVersion)

\* a discovery with an absent kind has returned a listing although the catalog
\* holds a descriptor with an empty plural name
C6_Witness ==
    /\ mode = "discovery"
    /\ pc = "done"
    /\ KindAbsent
    /\ result.shape = "discovery"
    /\ \E n \in 1..Len(result.body.discoveredTypes) :
           result.body.discoveredTypes[n].resource = << >>

\* C7 as stated: in discovery mode a fetched catalog always gives the
\* discovery listing, with totalFound the number of discoveredTypes and the
\* number of matching descriptors, also when nothing matches.
C7_DiscoveryListingAlways ==
    (mode = "discovery" /\ pc = "done" /\ CatalogFetched) =>
        /\ result.status = "ok"
        /\ result.shape = "discovery"
        /\ result.body.totalFound = Len(result.body.discoveredTypes)
        /\ result.body.totalFound
               = Len(GroupPositions(apiResourceLists, ToLower(input.GroupFilter)))

\* C7 amended: in discovery mode a fetched catalog always gives a successful
\* result; when at least one descriptor matches it is the discovery listing
\* {groupFilter, discoveredTypes, totalFound, message} with totalFound the
\* number of discoveredTypes and the number of matching descriptors; when none
\* matches it is {message, availableResources: []} without groupFilter,
\* discoveredTypes or totalFound.
C7_DiscoveryListingWhenMatched ==
    (mode = "discovery" /\ pc = "done" /\ CatalogFetched) =>
        LET ps == GroupPositions(apiResourceLists, ToLower(input.GroupFilter))
        IN  /\ result.status = "ok"
            /\ IF Len(ps) = 0
               THEN /\ result.shape = "noResources"
                    /\ DOMAIN result.body = {"message", "availableResources"}
                    /\ result.body.availableResources = << >>
               ELSE /\ result.shape = "discovery"
                    /\ DOMAIN result.body
                           = {"groupFilter", "discoveredTypes", "totalFound", "message"}
                    /\ result.body.groupFilter = input.GroupFilter
                    /\ result.body.totalFound = Len(result.body.discoveredTypes)
                    /\ result.body.totalFound = Len(ps)
                    /\ result.body.message.count = Len(ps)

\* a discovery listing of two types, one list of the catalog left out
C7_Witness ==
    /\ mode = "discovery"
    /\ pc = "done"
    /\ result.shape = "discovery"
    /\ result.body.totalFound = 2
    /\ Len(PositionsFrom(apiResourceLists, 1)) > 2

\* the lists of the catalog whose group/version string contains the fragment
GroupFilteredCatalog(catalog, fragment) ==
    LET InGroup(l) == ~l.nil /\ Contains(l.GroupVersion, fragment)
    IN  SelectSeq(catalog, InGroup)

\* C8: in filtered-kind mode the handler lists with the first descriptor, in
\* catalog order, of the group-filtered catalog whose kind, plural name or short
\* alias equals the kind token up to case, which is what findGVRByKind gives on
\* the group-filtered catalog; when there is none the invocation fails with
\* "kind not found in group filter" and issues no list call.
C8_FilteredKindIsResolveOnGroup ==
    (mode = "filtered" /\ CatalogFetched) =>
        LET filtered == GroupFilteredCatalog(apiResourceLists, ToLower(input.GroupFilter))
            ps == MatchPositions(filtered, input.Kind)
            r == findGVRByKind(filtered, input.Kind)
        IN  IF ps = {}
            THEN /\ r.err # NoError
                 /\ pc = "done"
                 /\ result.err.msg = "kind not found in group filter"
                 /\ listCalls = << >>
            ELSE /\ r.err = NoError
                 /\ gvrMatch = r.found
                 /\ gvrMatch.apiRes = DescriptorAt(filtered, FirstPosition(ps))
                 /\ gvrMatch.groupVersion = filtered[FirstPosition(ps)[1]].GroupVersion
                 /\ \A i \in 1..Len(listCalls) :
                        listCalls[i].gvr = ToGroupVersionResource(r.found)

\* a kind given by its short alias in upper case was listed from the second
\* list of the catalog, the first list holding the same descriptor in a group
\* that the fragment leaves out
C8_Witness ==
    /\ mode = "filtered"
    /\ pc = "done"
    /\ result.status = "ok"
    /\ Len(listCalls) = 1
    /\ Len(apiResourceLists) = 2
    /\ apiResourceLists[1] = APIResourceList(gvAppsUpper, <<Pods>>)
    /\ apiResourceLists[2] = APIResourceList(gvNoVersion, <<Pods>>)
    /\ gvrMatch.groupVersion = gvNoVersion

C11_CancellationAbortsEveryCall ==
    (pc = "done" /\ ctxDone) =>
        /\ result.status = "error"
        /\ result.err.cause = "canceled"

\* C12: whenever the catalog fetch or the list call of an invocation fails, the
\* invocation returns an error and no payload: no discovery listing, no
\* summaries and no raw items; the error is the one of the failed call, and a
\* failed catalog fetch is followed by no list call.
C12_AllOrNothing ==
    (pc = "done" /\ answer.call \in {"ServerPreferredResources", "List"}
                 /\ answer.err # "none") =>
        /\ result.status = "error"
        /\ result.shape = "none"
        /\ result.body = << >>
        /\ result.err.cause = answer.err
        /\ (answer.call = "ServerPreferredResources" => listCalls = << >>)
        /\ (answer.call = "List" => Len(listCalls) = 1 /\ fetches = 1)

\* a list call for summaries has failed after the catalog was fetched and the
\* Pod descriptor resolved
C12_Witness ==
    /\ pc = "done"
    /\ answer = Answer("List", "other", << >>)
    /\ ~input.ShowDetails
    /\ gvrMatch.apiRes = Pods
    /\ fetches = 1
    /\ result.status = "error"

(***************************************************************************)
(* Properties of the projection                                            *)
(***************************************************************************)
Projected == fnOut.op = "project"
\* the descriptor's kind name is the word, up to the case of its letters
KindIs(word) == EqualFold(fnIn.kind, word)
\* a section of the item when it is an object, the empty object otherwise
SectionOf(item, section) ==
    IF section \in DOMAIN item.m /\ "m" \in DOMAIN item.m[section]
    THEN item.m[section].m ELSE EmptyMap
\* the object stored under a key, the empty object when there is none
ObjectAt(map, key) ==
    IF key \in DOMAIN map /\ "m" \in DOMAIN map[key] THEN map[key].m ELSE EmptyMap
\* the entries of the array stored under a key that are objects, in array order
ObjectEntries(map, key) ==
    LET IsObject(e) == "m" \in DOMAIN e
    IN  IF key \in DOMAIN map /\ "a" \in DOMAIN map[key]
        THEN SelectSeq(map[key].a, IsObject) ELSE << >>
HasArray(map, key) == key \in DOMAIN map /\ "a" \in DOMAIN map[key]
HasText(map, key) == key \in DOMAIN map /\ "s" \in DOMAIN map[key]
HasCount(map, key) == key \in DOMAIN map /\ "n" \in DOMAIN map[key]
HasFlag(map, key) == key \in DOMAIN map /\ "b" \in DOMAIN map[key]
CountAt(map, key) == IF HasCount(map, key) THEN map[key].n ELSE 0
RECURSIVE SumOfCounts(_, _)
SumOfCounts(entries, key) ==
    IF entries = << >> THEN 0
    ELSE CountAt(Head(entries).m, key) + SumOfCounts(Tail(entries), key)

\* C13 as stated: for every Pod item ready is the conjunction of the ready
\* flags of the entries of status.containerStatuses, and it is true when the
\* array is empty and when it is absent, also when the item has no status.
C13_ReadyIsConjunction ==
    (Projected /\ KindIs(sPodLower)) =>
        LET cs == ObjectEntries(SectionOf(fnIn.item, "status"), "containerStatuses")
        IN  fnOut.summary.Ready
                = (\A i \in 1..Len(cs) : HasFlag(cs[i].m, "ready") => cs[i].m.ready.b)

DecimalOf(n) ==
    CASE n = 80 -> <<"8","0">>
      [] n = 443 -> <<"4","4","3">>
      [] n = 8080 -> <<"8","0","8","0">>
\* [name + ":"] + port-number + ["/" + protocol], a segment left out when its
\* field is absent
PortText(port) ==
    (IF HasText(port, "name") THEN port.name.s \o <<":">> ELSE << >>)
    \o (IF HasCount(port, "port") THEN DecimalOf(port.port.n) ELSE << >>)
    \o (IF HasText(port, "protocol") THEN <<"/">> \o port.protocol.s ELSE << >>)

C17_IngressHostsAndAddresses ==
    (Projected /\ KindIs(sIngressLower)) =>
        LET status == SectionOf(fnIn.item, "status")
            lb == ObjectEntries(ObjectAt(status, "loadBalancer"), "ingress")
            \* ip of entry 1, hostname of entry 1, ip of entry 2, ...
            slots == [k \in 1..(2 * Len(lb)) |->
                         IF k % 2 = 1 THEN <<lb[(k + 1) \div 2].m, "ip">>
                         ELSE <<lb[k \div 2].m, "hostname">>]
            Filled(slot) == HasText(slot[1], slot[2])
            filled == SelectSeq(slots, Filled)
            rules == ObjectEntries(SectionOf(fnIn.item, "spec"), "rules")
            WithHost(rule) == HasText(rule.m, "host")
            hosted == SelectSeq(rules, WithHost)
        IN  /\ fnOut.summary.Addresses.elems
                   = [k \in 1..Len(filled) |-> filled[k][1][filled[k][2]].s]
            /\ fnOut.summary.Hosts.elems = [k \in 1..Len(hosted) |-> hosted[k].m.host.s]
            /\ ("loadBalancer" \notin DOMAIN status =>
                    /\ Len(fnOut.summary.Addresses.elems) = 0
                    /\ Len(fnOut.summary.Hosts.elems) = Len(hosted))

\* an ingress with two rules and two load-balancer entries, the first entry
\* holding a hostname and an ip
C17_Witness ==
    /\ Projected
    /\ KindIs(sIngressLower)
    /\ fnOut.summary.Addresses.elems = <<Txt.ip, Txt.lbHost, Txt.ip2>>
    /\ fnOut.summary.Hosts.elems = <<Txt.hostA, Txt.hostB>>

PodFields == {"Name", "Namespace", "Phase", "Ready", "RestartCount", "StartTime"}
DeploymentFields ==
    {"Name", "Namespace", "Replicas", "Available", "Unavailable", "Updated", "Ready"}
ServiceFields == {"Name", "Namespace", "Type", "ClusterIP", "Ports"}
IngressFields == {"Name", "Namespace", "Hosts", "Addresses"}
GenericFields == {"Name", "Namespace", "Kind", "hasStatus", "Status"}

\* C18: the item is projected with the Pod, Deployment, Service or Ingress
\* variant exactly when the kind name is that word up to case and in full, never
\* on a prefix or a longer word; for every other kind the result is the generic
\* summary {name, namespace, kind, status} with the item's own kind and its
\* entire status object unchanged; kind "Widget" with status {phase: "Active"}
\* gives {kind: "Widget", status: {phase: "Active"}}.
C18_VariantByExactKind ==
    Projected =>
        LET fields == DOMAIN fnOut.summary
            special == KindIs(sPodLower) \/ KindIs(sDeploymentLower)
                       \/ KindIs(sServiceLower) \/ KindIs(sIngressLower)
        IN  /\ (fields = PodFields) = KindIs(sPodLower)
            /\ (fields = DeploymentFields) = KindIs(sDeploymentLower)
            /\ (fields = ServiceFields) = KindIs(sServiceLower)
            /\ (fields = IngressFields) = KindIs(sIngressLower)
            /\ (fields = GenericFields) = ~special
            /\ fnOut.summary.Name = fnIn.item.m.metadata.m.name.s
            /\ (~special =>
                    /\ fnOut.summary.Kind = fnIn.item.m.kind.s
                    /\ fnOut.summary.hasStatus
                           = ("status" \in DOMAIN fnIn.item.m /\ "m" \in DOMAIN fnIn.item.m.status)
                    /\ (fnOut.summary.hasStatus =>
                            fnOut.summary.Status = fnIn.item.m.status.m)
                    /\ ((fnIn.item.m.kind.s = Txt.widget /\ fnOut.summary.hasStatus) =>
                            fnOut.summary.Status = [phase |-> JStr(Txt.active)]))

\* a pod with container statuses listed with a descriptor of kind Pods, which
\* has Pod as a prefix
C18_Witness ==
    /\ Projected
    /\ fnIn.kind = <<"P","o","d","s">>
    /\ fnOut.summary.Kind = sPod
    /\ fnOut.summary.hasStatus
    /\ "containerStatuses" \in DOMAIN fnOut.summary.Status

(***************************************************************************)
(* Properties of the detailed listing                                      *)
(***************************************************************************)
\* C19: with showDetails true, in direct and in filtered-kind mode, a
\* successful invocation returns the answer of the list call as it is, for
\* every kind, Pod included, and never summaries; the coordinate listed and
\* the list query are those of the same request without showDetails.
C19_ShowDetailsPassesRawList ==
    (pc = "done" /\ input.ShowDetails /\ mode \in {"direct", "filtered"}) =>
        LET plain == [input EXCEPT !.ShowDetails = FALSE]
            resolved == IF mode = "direct"
                        THEN findGVRByKind(apiResourceLists, plain.Kind).found
                        ELSE GroupKindScan(
                                 findGVRsByGroupSubstring(apiResourceLists, plain.GroupFilter),
                                 ToLower(plain.Kind), 1)
        IN  /\ result.shape \in {"none", "raw"}
            /\ (result.status = "ok" =>
                    /\ result.shape = "raw"
                    /\ answer.call = "List"
                    /\ result.body = answer.items)
            /\ \A i \in 1..Len(listCalls) :
                   /\ gvrMatch = resolved
                   /\ listCalls[i] = ListCall(resolved, plain)

\* a detailed listing in filtered-kind mode of a descriptor of kind Pod has
\* returned the pod as the cluster gave it
C19_Witness ==
    /\ pc = "done"
    /\ mode = "filtered"
    /\ input.ShowDetails
    /\ gvrMatch.apiRes.Kind = sPod
    /\ result.status = "ok"
    /\ result.body = <<PodItem>>

(***************************************************************************)
(* Properties of change_env                                                *)
(***************************************************************************)
\* C20: after a change_env invocation that returns the status "Secret updated
\* and new version created" the secret has one version more than before, and
\* the JSON object of that version maps the key to newValue; when the key is
\* not in the latest version the invocation fails and the secret is unchanged.
C20_SuccessMeansNewVersion ==
    fnOut.op = "change_env" =>
        /\ (fnOut.text = "Secret updated and new version created" =>
                /\ fnOut.status = "ok"
                /\ Len(secretVersions) = Len(fnOut.before) + 1
                /\ secretVersions[Len(secretVersions)].object
                /\ FieldOf(fnIn.args.key.val) \in DOMAIN secretVersions[Len(secretVersions)].data
                /\ secretVersions[Len(secretVersions)].data[FieldOf(fnIn.args.key.val)]
                       = fnIn.args.newValue.val)
        /\ (fnOut.status = "error" => secretVersions = fnOut.before)

(***************************************************************************)
(* Properties of the calls of one invocation                               *)
(***************************************************************************)
\* C21 as stated: an invocation that passed validation has issued exactly one
\* catalog fetch when it returns, and at most one list call, which follows a
\* successful fetch and a resolved coordinate.
C21_ExactlyOneFetch ==
    (pc = "done" /\ mode # "none") =>
        /\ fetches = 1
        /\ Len(listCalls) <= 1
        /\ (Len(listCalls) = 1 => ~gvrMatch.nil)

\* what holds of the calls in every state of an invocation that passed validation
CallsInOrder ==
    (pc # "idle" /\ mode # "none") =>
        /\ fetches <= 1
        /\ Len(listCalls) <= 1
        /\ (Len(listCalls) = 1 =>
                /\ fetches = 1
                /\ ~gvrMatch.nil
                /\ answer.call = "List")
        /\ (pc = "done" =>
                \/ fetches = 1
                \/ /\ fetches = 0
                   /\ answer = Answer("DiscoClient", "client", << >>)
                   /\ result.status = "error"
                   /\ listCalls = << >>)
\* a step that issues the catalog fetch: the first fetch, before any list call
FetchStep ==
    (fetches' # fetches /\ pc' # "idle") =>
        /\ fetches = 0
        /\ fetches' = 1
        /\ listCalls = << >>
        /\ listCalls' = << >>
        /\ answer'.call = "ServerPreferredResources"
\* a step that issues a list call: the first one, after the fetch has answered
\* with a catalog and a coordinate was resolved from it
ListStep ==
    (listCalls' # listCalls /\ pc' # "idle") =>
        /\ listCalls = << >>
        /\ Len(listCalls') = 1
        /\ fetches = 1
        /\ fetches' = 1
        /\ answer = Answer("ServerPreferredResources", "none", << >>)
        /\ ~gvrMatch.nil
        /\ ~ToGroupVersionResource(gvrMatch).nil

\* C21 amended: an invocation that passed validation issues at most one
\* catalog fetch, never repeated or retried, also when it fails, and exactly
\* one unless the discovery client could not be created, in which case it
\* fails without any fetch; it issues at most one list call, the fetch precedes
\* the list call, and the list call is issued only after the fetch succeeded
\* and a coordinate was resolved.
C21_OneFetchThenOneList ==
    /\ []CallsInOrder
    /\ [][FetchStep /\ ListStep]_vars

\* a direct invocation has fetched the catalog once and then listed once
C21_Witness ==
    /\ pc = "done"
    /\ mode = "direct"
    /\ fetches = 1
    /\ Len(listCalls) = 1
    /\ answer.call = "List"
    /\ answer.err = "none"

AloneOutcome(a, fetch, list) ==
    LET p == parseAndValidateListParams(
                 a, [kind |-> TRUE, namespace |-> TRUE, labelSelector |-> TRUE], MaxInt64)
        in == p.input
        groups == findGVRsByGroupSubstring(fetch.catalog, in.GroupFilter)
        byKind == findGVRByKind(fetch.catalog, in.Kind)
        inGroup == GroupKindScan(groups, ToLower(in.Kind), 1)
        match == IF Dispatch(in) = "filtered" THEN inGroup ELSE byKind.found
        listed == IF list.call = "Resource"
                  THEN Failure(Errorf("failed to create resource interface", list.err))
                  ELSE IF list.err # "none" THEN Failure(ListError(list.err))
                  ELSE IF in.ShowDetails THEN RawList(list.items)
                  ELSE Success("summaries",
                           Slice([k \in 1..Len(list.items) |->
                               Project(ToLower(match.apiRes.Kind), list.items[k])]))
    IN  IF p.err # NoError THEN Failure(p.err)
        ELSE IF fetch.err # "none"
        THEN Failure(Errorf(IF fetch.call = "DiscoClient"
                            THEN "failed to create discovery client"
                            ELSE "failed to discover resources", fetch.err))
        ELSE CASE Dispatch(in) = "discovery" -> DiscoveryResult(groups, in.GroupFilter)
               [] Dispatch(in) = "filtered" ->
                      IF inGroup.nil
                      THEN Failure(Errorf("kind not found in group filter", "none"))
                      ELSE listed
               [] Dispatch(in) = "direct" ->
                      IF byKind.err # NoError THEN Failure(byKind.err) ELSE listed

\* a step leaves the locals of all invocations but one as they were
OneInvocationSteps == \E i \in DOMAIN fnOut : \A j \in DOMAIN fnOut \ {i} : fnOut'[j] = fnOut[j]

\* C23: concurrent list invocations are independent.  Whatever the
\* interleaving, an invocation that has returned has the result it would have
\* had when run alone on its own arguments with the catalog and list answers
\* it received itself, and a step of one invocation changes nothing that
\* belongs to another.
C23_InvocationsIndependent ==
    /\ [](\A i \in DOMAIN fnOut :
              fnOut[i].pc = "done" =>
                  fnOut[i].result = AloneOutcome(fnIn[i], fnOut[i].fetch, fnOut[i].list))
    /\ [][OneInvocationSteps]_vars

\* two invocations with the same arguments, the second returned with its
\* summaries while the first, answered a different catalog, has yet to list,
\* and each resolved the kind from its own catalog
C23_Witness ==
    /\ fnIn[1] = fnIn[2]
    /\ fnOut[1].pc = "listResourcesWithStatus"
    /\ fnOut[2].pc = "done"
    /\ fnOut[2].result.status = "ok"
    /\ fnOut[2].list.err = "none"
    /\ Len(fnOut[2].list.items) > 0
    /\ fnOut[1].fetch.catalog # fnOut[2].fetch.catalog
    /\ fnOut[1].gvrMatch # fnOut[2].gvrMatch

====
